---- MODULE Spec2Model ----
(***************************************************************************)
(* Eclipse Photography Controller (python/): the time arithmetic of        *)
(* scheduling/time_calculator.py and the action executor of                *)
(* scheduling/action_scheduler.py.                                          *)
(*                                                                          *)
(* Time is counted in whole seconds.  `now` is the host clock as a count   *)
(* of seconds since midnight of the day the run starts; it only grows.     *)
(* datetime.now().time() is the time-of-day of `now`, and time.time() is   *)
(* `now` itself (both read the same host clock).                           *)
(***************************************************************************)
EXTENDS Integers, Sequences, FiniteSets, TLC

VARIABLES
    pc,               \* position of the running call
    now,              \* host clock, seconds since midnight of day 0
    eclipse_timings,  \* TimeCalculator.eclipse_timings (C1, C2, Max, C3, C4)
    reference,        \* convert_relative_time: argument
    operator,         \* convert_relative_time: argument
    offset_time,      \* convert_relative_time: argument
    result_time,      \* convert_relative_time: returned time, or ValueError
    target_time,      \* wait_until: argument
    wait_called_at,   \* value of `now` when wait_until was entered
    wait_branch,      \* which branch of wait_until's loop body the last poll took
    action,           \* execute_action: the ActionConfig being executed
    mode,             \* which execute_*_action method is running
    actions_executed, \* ActionScheduler.actions_executed
    photos_taken,     \* ActionScheduler.photos_taken
    execution_errors, \* ActionScheduler.execution_errors
    ret,              \* what execute_action returned: "None" (not yet), "True", "False"
    start_time,       \* local start_time / trigger_time (resolved)
    end_time,         \* local end_time (resolved)
    total_duration,   \* execute_interval_action: local total_duration
    photo_count,      \* execute_interval_action: local photo_count
    loop_start_time,  \* local loop_start_time / interval_start_time
    next_capture_time,\* execute_loop_action: local next_capture_time
    capture_count,    \* execute_loop_action: local capture_count
    i,                \* execute_interval_action: loop index i
    fanout_count,     \* history: the capture_all calls of the action so far
    last_fanout,      \* history: when the last capture_all was called and returned
    device_successes, \* history: devices that returned an image, over the action's fan-outs
    stats_before,     \* history: the three counters when execute_action was entered
    calls_made,       \* history: the kinds of call (configure, mirror_lockup, wait,
                      \* capture) the action has made so far
    config_results,   \* what camera_manager.configure_all returns on these devices
    mlu_raises,       \* the camera whose mirror_lockup call raises, NoCamera if none
    mlu_invoked,      \* history: the cameras mirror_lockup(True, delay) was invoked on
                      \* by the last _apply_mirror_lockup of the action
    results,          \* capture_all: the dict `results` its threads fill
    alive,            \* capture_all: the cameras whose capture thread is still running
    join_index,       \* capture_all: how many threads the join loop has passed
    timed_out,        \* history: the cameras whose join ended on its timeout
    returned_results, \* history: what the dict held when capture_all returned it
    time_out,         \* LuaSimulator.convert_time: the returned seconds, <<>> before
    intervalle,       \* LuaSimulator.boucle: its interval in seconds, <<>> before
    arg_seconds,      \* TimeCalculator call: the argument `seconds`, <<>> when none
    arg_time1,        \* TimeCalculator call: the time argument (t, time1)
    arg_time2,        \* TimeCalculator call: the argument time2
    ret_seconds,      \* TimeCalculator call: the returned seconds, <<>> before
    ret_time,         \* TimeCalculator call: the returned time
    sequence_valid,   \* run: what validate_eclipse_sequence returned, "None" before
    actions,          \* run: config.actions, the configured sequence
    action_index,     \* run: position of the for loop in config.actions (from 1)
    strict_mode,      \* run: options['strict_mode']
    shutdown_requested, \* EclipsePhotographyController.shutdown_requested
    exit_code,        \* run: the returned exit code, <<>> while it has not returned
    started,          \* history: positions of the actions passed to execute_action
    action_results,   \* history: what each of these calls returned
    reset_at          \* history: how many calls had returned when reset_stats was last called

resolveVars == <<reference, operator, offset_time, result_time>>
waitVars == <<target_time, wait_called_at, wait_branch>>
statVars == <<actions_executed, photos_taken, execution_errors>>
localVars == <<start_time, end_time, total_duration, photo_count, loop_start_time,
               next_capture_time, capture_count, i>>
histVars == <<fanout_count, last_fanout, device_successes, stats_before, calls_made>>
schedVars == <<action, mode, statVars, ret, localVars, histVars>>
mluVars == <<mlu_raises, mlu_invoked>>
captureVars == <<results, alive, join_index, timed_out, returned_results>>
luaVars == <<time_out, intervalle>>
calcVars == <<arg_seconds, arg_time1, arg_time2, ret_seconds, ret_time>>
runVars == <<sequence_valid, actions, action_index, strict_mode, shutdown_requested,
             exit_code, started, action_results, reset_at>>
vars == <<pc, now, eclipse_timings, config_results, mluVars, captureVars, luaVars, calcVars,
          resolveVars, waitVars, schedVars, runVars>>

(***************************************************************************)
(* Program constants                                                       *)
(***************************************************************************)
DaySeconds == 86400
ReachedTolerance == 30
HalfDaySeconds == 43200

(***************************************************************************)
(* datetime.time values                                                    *)
(***************************************************************************)
Time(h, m, s) == [hour |-> h, minute |-> m, second |-> s]

ValidTime(t) ==
    /\ t.hour \in 0..23
    /\ t.minute \in 0..59
    /\ t.second \in 0..59

\* A call that returned no time: None, or the exception it raised
NoTime == [raised |-> "None"]
ValueError == [raised |-> "ValueError"]

(***************************************************************************)
(* TimeCalculator: conversions                                             *)
(***************************************************************************)
time_to_seconds(t) == t.hour * 3600 + t.minute * 60 + t.second

seconds_to_time_minutes_unreduced(seconds) ==
    LET s == seconds % DaySeconds
        hours == s \div 3600
        minutes == s \div 60
        secs == s % 60
    IN  Time(hours, minutes, secs)

seconds_to_time_no_wrap(seconds) ==
    LET s == seconds
        hours == s \div 3600
        minutes == (s % 3600) \div 60
        secs == s % 60
    IN  Time(hours, minutes, secs)

seconds_to_time(seconds) ==
    LET s == seconds % DaySeconds
        hours == s \div 3600
        minutes == (s % 3600) \div 60
        secs == s % 60
    IN  Time(hours, minutes, secs)

References == {"C1", "C2", "Max", "C3", "C4"}

\* TimeCalculator.__init__: the pre-calculated reference times, in seconds
_ref_times_seconds(timings) ==
    [r \in References |-> time_to_seconds(timings[r])]

\* The operator applied to the reference, before the day boundary is handled
ApplyOperatorSwapped(op, ref_seconds, offset_seconds) ==
    IF op = "+" THEN ref_seconds - offset_seconds
                ELSE ref_seconds + offset_seconds

ApplyOperator(op, ref_seconds, offset_seconds) ==
    IF op = "+" THEN ref_seconds + offset_seconds
                ELSE ref_seconds - offset_seconds

convert_relative_time_any_operator(timings, ref, op, offset) ==
    IF ref \notin References THEN ValueError
    ELSE LET ref_seconds == _ref_times_seconds(timings)[ref]
             offset_seconds == time_to_seconds(offset)
             result_seconds == ApplyOperator(op, ref_seconds, offset_seconds) % DaySeconds
         IN  seconds_to_time(result_seconds)

convert_relative_time(timings, ref, op, offset) ==
    IF ref \notin References THEN ValueError
    ELSE IF op \notin {"+", "-"} THEN ValueError
    ELSE LET ref_seconds == _ref_times_seconds(timings)[ref]
             offset_seconds == time_to_seconds(offset)
             result_seconds == ApplyOperator(op, ref_seconds, offset_seconds) % DaySeconds
         IN  seconds_to_time(result_seconds)

(***************************************************************************)
(* TimeCalculator.wait_until: one pass of the body of its `while True`.   *)
(* now_seconds and target_seconds are times of day in seconds.  The       *)
(* result names the branch taken: "reached" (break at the tolerance       *)
(* test), "passed" (break, target missed by less than 12 hours),          *)
(* "reached_late" (break at the second test), or "sleep"; `tomorrow`      *)
(* tells whether 86400 was added to `remaining`.                          *)
(***************************************************************************)
Abs(x) == IF x < 0 THEN -x ELSE x

wait_until_body_no_tomorrow(now_seconds, target_seconds) ==
    LET remaining == target_seconds - now_seconds
    IN  IF -ReachedTolerance <= remaining /\ remaining <= 0
        THEN [branch |-> "reached", remaining |-> remaining, tomorrow |-> FALSE]
        ELSE IF remaining < -ReachedTolerance
        THEN [branch |-> "passed", remaining |-> remaining, tomorrow |-> FALSE]
        ELSE [branch |-> "sleep", remaining |-> remaining, tomorrow |-> FALSE]

wait_until_body_half_day_inclusive(now_seconds, target_seconds) ==
    LET remaining == target_seconds - now_seconds
    IN  IF -ReachedTolerance <= remaining /\ remaining <= 0
        THEN [branch |-> "reached", remaining |-> remaining, tomorrow |-> FALSE]
        ELSE IF remaining < -ReachedTolerance /\ Abs(remaining) <= HalfDaySeconds
        THEN [branch |-> "passed", remaining |-> remaining, tomorrow |-> FALSE]
        ELSE LET tomorrow == remaining < -ReachedTolerance
                 remaining2 == IF tomorrow THEN remaining + DaySeconds ELSE remaining
             IN  [branch |-> "sleep", remaining |-> remaining2, tomorrow |-> tomorrow]

wait_until_body_reached_when_not_ahead(now_seconds, target_seconds) ==
    LET remaining == target_seconds - now_seconds
    IN  IF remaining <= 0
        THEN [branch |-> "reached", remaining |-> remaining, tomorrow |-> FALSE]
        ELSE [branch |-> "sleep", remaining |-> remaining, tomorrow |-> FALSE]

wait_until_body(now_seconds, target_seconds) ==
    LET remaining == target_seconds - now_seconds
    IN  IF -ReachedTolerance <= remaining /\ remaining <= 0
        THEN [branch |-> "reached", remaining |-> remaining, tomorrow |-> FALSE]
        ELSE IF remaining < -ReachedTolerance /\ Abs(remaining) < HalfDaySeconds
        THEN [branch |-> "passed", remaining |-> remaining, tomorrow |-> FALSE]
        ELSE LET tomorrow == remaining < -ReachedTolerance
                 remaining2 == IF tomorrow THEN remaining + DaySeconds ELSE remaining
             IN  IF remaining2 <= 0
                 THEN [branch |-> "reached_late", remaining |-> remaining2, tomorrow |-> tomorrow]
                 ELSE [branch |-> "sleep", remaining |-> remaining2, tomorrow |-> tomorrow]

\* datetime.now().time(): the time of day of the host clock
datetime_now_time(clock) == seconds_to_time(clock)

get_time_difference_no_wrap(time1, time2) ==
    time_to_seconds(time2) - time_to_seconds(time1)

get_time_difference(time1, time2) ==
    LET seconds1 == time_to_seconds(time1)
        seconds2 == time_to_seconds(time2)
    IN  IF seconds2 < seconds1 THEN (seconds2 + DaySeconds) - seconds1
                               ELSE seconds2 - seconds1

(***************************************************************************)
(* ActionConfig (config/eclipse_config.py).  An Optional number is a      *)
(* sequence: <<>> for None, <<x>> for the value x.                         *)
(***************************************************************************)
NoNumber == <<>>

\* An Optional string that is None (the empty string is a string)
NoString == "<None>"

ActionConfig(type, ref, sop, st, eop, et, ioc, mlu) ==
    [action_type |-> type, time_ref |-> ref, start_operator |-> sop, start_time |-> st,
     end_operator |-> eop, end_time |-> et, interval_or_count |-> ioc, mlu_delay |-> mlu]

NoAction == ActionConfig("", "", "", NoTime, "", NoTime, NoNumber, 0)

\* action_types.py: create_action returns an action unless it raises
create_action_accepts_any_number(config) ==
    CASE config.action_type = "Photo" ->
            /\ config.start_time # NoTime
            /\ config.time_ref # NoString
            /\ config.start_operator # NoString
      [] config.action_type \in {"Boucle", "Interval"} ->
            /\ config.start_time # NoTime
            /\ config.end_time # NoTime
            /\ config.interval_or_count # NoNumber
      [] OTHER -> FALSE

create_action_accepts(config) ==
    CASE config.action_type = "Photo" ->
            /\ config.start_time # NoTime
            /\ config.time_ref # NoString
            /\ config.start_operator # NoString
      [] config.action_type \in {"Boucle", "Interval"} ->
            /\ config.start_time # NoTime
            /\ config.end_time # NoTime
            /\ config.interval_or_count # NoNumber
            /\ config.interval_or_count[1] > 0
      [] OTHER -> FALSE

\* ActionScheduler._calculate_action_time: a time, or ValueError when it raises
_calculate_action_time(timings, config, time_type) ==
    IF time_type = "start"
    THEN IF config.time_ref = "-"
         THEN config.start_time
         ELSE convert_relative_time(timings, config.time_ref, config.start_operator,
                                    config.start_time)
    ELSE IF config.end_time = NoTime
         THEN ValueError
         ELSE convert_relative_time(timings, config.time_ref, config.end_operator,
                                    config.end_time)

\* ActionScheduler._apply_mirror_lockup: the whole seconds its time.sleep takes
mirror_lockup_sleep(delay_ms) == IF delay_ms <= 0 THEN 0 ELSE delay_ms \div 1000

\* MultiCameraManager.capture_all returns a dict: camera id -> path or None.
\* A camera whose thread outlasts the join timeout has no entry.
NoneResult == "None"
NumCameras == 2
Cameras == 0..(NumCameras - 1)
CaptureResults ==
    UNION { [returned -> {"image.jpg", NoneResult}] : returned \in SUBSET Cameras }

\* sum(1 for result in capture_results.values() if result is not None)
successful_captures_all_entries(capture_results) ==
    Cardinality(DOMAIN capture_results)

successful_captures(capture_results) ==
    Cardinality({c \in DOMAIN capture_results : capture_results[c] # NoneResult})

\* History: the devices of one fan-out that returned an image
DevicesWithImage(capture_results) ==
    Cardinality({c \in Cameras : c \in DOMAIN capture_results
                                  /\ capture_results[c] = "image.jpg"})

\* MultiCameraManager.configure_all returns a dict: camera id -> bool (False for
\* a camera whose configure_settings returned False or raised).  `raised` tells
\* that building or applying the settings raised instead (lines 354-357).
ConfigureOutcome(raised, dict) == [raised |-> raised, results |-> dict]
ConfigResults ==
    { ConfigureOutcome(FALSE, dict) : dict \in [Cameras -> BOOLEAN] }
        \cup { ConfigureOutcome(TRUE, <<>>) }
AllConfigured == ConfigureOutcome(FALSE, [c \in Cameras |-> TRUE])

\* _configure_cameras_for_action, line 347
failed_configs(outcome) == {cid \in DOMAIN outcome.results : ~outcome.results[cid]}

\* _configure_cameras_for_action: True unless an exception was caught
_configure_cameras_for_action_strict(outcome) ==
    ~outcome.raised /\ failed_configs(outcome) = {}

_configure_cameras_for_action_ignores_raise(outcome) == TRUE

_configure_cameras_for_action(outcome) == ~outcome.raised

\* capture_all: the dict before any thread has written to it
EmptyResults == [c \in {} |-> NoneResult]

\* No camera's mirror_lockup raises, and none has been invoked
NoCamera == -1

MirrorLockupIdle == mlu_raises = NoCamera /\ mlu_invoked = {}

\* No capture_all call is being followed thread by thread
CaptureIdle ==
    /\ results = EmptyResults
    /\ alive = {}
    /\ join_index = 0
    /\ timed_out = {}
    /\ returned_results = EmptyResults

\* No conversion of the TimeCalculator is being followed
CalcIdle ==
    /\ arg_seconds = NoNumber /\ arg_time1 = NoTime /\ arg_time2 = NoTime
    /\ ret_seconds = NoNumber /\ ret_time = NoTime

\* The Lua reference has computed nothing
LuaIdle == time_out = NoNumber /\ intervalle = NoNumber

\* History of one capture_all call: the clock at the call and at its return
Fanout(at, until) == [at |-> at, until |-> until]
NoFanout == Fanout(0, 0)

\* The state of a new scheduler, on which no method is running
SchedulerIdle ==
    /\ action = NoAction
    /\ mode = "none"
    /\ actions_executed = 0 /\ photos_taken = 0 /\ execution_errors = 0
    /\ ret = "None"
    /\ start_time = NoTime /\ end_time = NoTime
    /\ total_duration = 0 /\ photo_count = 0
    /\ loop_start_time = 0 /\ next_capture_time = 0 /\ capture_count = 0 /\ i = 0
    /\ fanout_count = 0 /\ last_fanout = NoFanout /\ device_successes = 0
    /\ stats_before = [actions_executed |-> 0, photos_taken |-> 0, execution_errors |-> 0]
    /\ calls_made = {}
    /\ config_results = AllConfigured
    /\ CaptureIdle
    /\ MirrorLockupIdle
    /\ LuaIdle
    /\ CalcIdle

\* EclipsePhotographyController.__init__: no sequence is running
ControllerIdle ==
    /\ sequence_valid = "None"
    /\ actions = <<>>
    /\ action_index = 0
    /\ strict_mode = FALSE
    /\ shutdown_requested = FALSE
    /\ exit_code = NoNumber
    /\ started = <<>>
    /\ action_results = <<>>
    /\ reset_at = 0

NoPoll == [branch |-> "none", remaining |-> 0, tomorrow |-> FALSE]

(***************************************************************************)
(* The inputs the checks draw from                                         *)
(***************************************************************************)
\* The contact table of tests/test_time_calculator.py, and a late-evening one
EclipseTables ==
    { [C1 |-> Time(14, 41, 5), C2 |-> Time(16, 2, 49), Max |-> Time(16, 3, 53),
       C3 |-> Time(16, 4, 58), C4 |-> Time(17, 31, 3)],
      [C1 |-> Time(22, 10, 0), C2 |-> Time(23, 20, 0), Max |-> Time(23, 21, 30),
       C3 |-> Time(23, 23, 0), C4 |-> Time(23, 59, 59)] }

TestTimings == CHOOSE t \in EclipseTables : t.C1 = Time(14, 41, 5)

\* Offsets: every hour, with the first and last minute and second among others
OffsetTimes ==
    { Time(h, m, s) : h \in 0..23,
                      m \in {0, 28, 41, 59},
                      s \in {0, 1, 5, 57, 59} }

ReferenceInputs == References \cup {"-", "C5"}
OperatorInputs == {"+", "-", "*", ""}

(***************************************************************************)
(* Specification SpecResolve: one call of convert_relative_time            *)
(***************************************************************************)
InitResolve ==
    /\ pc = "resolve_call"
    /\ now = 0
    /\ eclipse_timings \in EclipseTables
    /\ reference \in ReferenceInputs
    /\ operator \in OperatorInputs
    /\ offset_time \in OffsetTimes
    /\ result_time = NoTime
    /\ target_time = NoTime
    /\ wait_called_at = 0
    /\ wait_branch = NoPoll
    /\ SchedulerIdle
    /\ ControllerIdle

ConvertRelativeTime ==
    /\ pc = "resolve_call"
    /\ result_time' = convert_relative_time(eclipse_timings, reference, operator, offset_time)
    /\ pc' = "resolve_done"
    /\ UNCHANGED <<now, eclipse_timings, config_results, mluVars, calcVars, luaVars, captureVars, reference, operator, offset_time, waitVars, schedVars,
                   runVars>>

NextResolve == ConvertRelativeTime

SpecResolve == InitResolve /\ [][NextResolve]_vars

(***************************************************************************)
(* wait_until as steps.  WaitPoll is one pass of the loop body up to its  *)
(* break or its sleep; WaitSleep is time.sleep(check_interval), which     *)
(* returns no sooner than check_interval later and as much later as the   *)
(* host decides.  Polls that read the same second repeat the same state   *)
(* and are not drawn; the clock read by the next poll is later by one of  *)
(* PollSteps, and the position of the target against these steps, to the  *)
(* second, is drawn with the start time.                                  *)
(***************************************************************************)
PollSteps == {15, 3600}

\* The host clock is followed up to this many seconds after the first midnight
MaxClock == 172800

WaitPoll ==
    /\ pc = "wait"
    /\ LET now_seconds == time_to_seconds(datetime_now_time(now))
           target_seconds == time_to_seconds(target_time)
           body == wait_until_body(now_seconds, target_seconds)
       IN  /\ wait_branch' = body
           /\ pc' = IF body.branch = "sleep" THEN "wait_sleep" ELSE "wait_done"
    /\ UNCHANGED <<now, eclipse_timings, config_results, mluVars, calcVars, luaVars, captureVars, resolveVars, target_time, wait_called_at, schedVars,
                   runVars>>

WaitSleep ==
    /\ pc = "wait_sleep"
    /\ \E d \in PollSteps : now + d <= MaxClock /\ now' = now + d
    /\ pc' = "wait"
    /\ UNCHANGED <<eclipse_timings, config_results, mluVars, calcVars, luaVars, captureVars, resolveVars, waitVars, schedVars, runVars>>

(***************************************************************************)
(* Specification SpecWait: one call of wait_until(target_time), entered   *)
(* when the time of day is target + delta (mod one day).                  *)
(***************************************************************************)
WaitTargets == {Time(0, 0, 10), Time(2, 0, 0), Time(12, 0, 0), Time(16, 3, 43), Time(23, 59, 50)}

WaitDeltas == {-43215, -43201, -43200, -43199, -43185, -7200, -45, -31, -30, -29, -15, -1,
               0, 1, 15, 29, 30, 31, 45, 7200, 43199, 43200, 43201}

InitWait ==
    /\ pc = "wait"
    /\ target_time \in WaitTargets
    /\ \E delta \in WaitDeltas : now = (time_to_seconds(target_time) + delta) % DaySeconds
    /\ wait_called_at = now
    /\ wait_branch = NoPoll
    /\ eclipse_timings = TestTimings
    /\ reference = "C1" /\ operator = "+" /\ offset_time = Time(0, 0, 0)
    /\ result_time = NoTime
    /\ SchedulerIdle
    /\ ControllerIdle

NextWait == WaitPoll \/ WaitSleep

SpecWait == InitWait /\ [][NextWait]_vars

\* Time of day, in seconds, at which wait_until was entered, and the target's
WaitEnteredSeconds == time_to_seconds(datetime_now_time(wait_called_at))
WaitTargetSeconds == time_to_seconds(target_time)
\* How far ahead the target's time of day lay when wait_until was entered
AheadAtEntry == (WaitTargetSeconds - WaitEnteredSeconds) % 86400
\* Seconds of host clock elapsed since wait_until was entered
WaitElapsed == now - wait_called_at
\* Elapsed time since the host clock last showed the target's time of day
PassedBy == (time_to_seconds(datetime_now_time(now)) - WaitTargetSeconds) % 86400
\* The same-day difference the code computes: time of day now minus target
SameDayPassedBy == time_to_seconds(datetime_now_time(now)) - WaitTargetSeconds
\* A poll has just been decided
JustPolled == pc \in {"wait_sleep", "wait_done"}

(***************************************************************************)
(* ActionScheduler.execute_action as steps.  ExecuteAction runs from the  *)
(* call to the first wait_until (validation, time resolution, camera      *)
(* configuration, and for a Photo the mirror lockup); the wait is         *)
(* WaitPoll and WaitSleep; the captures follow.  The step that ends the   *)
(* method also does execute_action's bookkeeping (lines 76-83).            *)
(***************************************************************************)
Stats == [actions_executed |-> actions_executed, photos_taken |-> photos_taken,
          execution_errors |-> execution_errors]

Finish_error_not_counted(success) ==
    /\ ret' = IF success THEN "True" ELSE "False"
    /\ actions_executed' = IF success THEN actions_executed + 1 ELSE actions_executed
    /\ execution_errors' = execution_errors
    /\ pc' = "done"

\* execute_action, lines 76-88: count the outcome and return it
Finish(success) ==
    /\ ret' = IF success THEN "True" ELSE "False"
    /\ actions_executed' = IF success THEN actions_executed + 1 ELSE actions_executed
    /\ execution_errors' = IF success THEN execution_errors ELSE execution_errors + 1
    /\ pc' = "done"

Prepared(failed, m, st, et, dur, n, slp, calls) ==
    [failed |-> failed, mode |-> m, start_time |-> st, end_time |-> et,
     total_duration |-> dur, photo_count |-> n, sleep |-> slp, calls |-> calls]

\* A failure met before the cameras are configured: no call has been made
PrepareFailedAfterConfigure ==
    Prepared(TRUE, "none", NoTime, NoTime, 0, 0, 0, {"configure"})

PrepareFailed == Prepared(TRUE, "none", NoTime, NoTime, 0, 0, 0, {})

\* _configure_cameras_for_action returned False: the method returns False
ConfigureFailed == Prepared(TRUE, "none", NoTime, NoTime, 0, 0, 0, {"configure"})

\* The calls _apply_mirror_lockup makes: none when the delay is not positive
mirror_lockup_calls(delay_ms) == IF delay_ms > 0 THEN {"mirror_lockup"} ELSE {}

MirrorLockup(invoked, raised, slept) ==
    [invoked |-> invoked, raised |-> raised, slept |-> slept]

\* ActionScheduler._apply_mirror_lockup, lines 359-380: the cameras are taken
\* in the order of active_cameras; an exception of one call ends the loop and
\* skips the sleep
_apply_mirror_lockup(delay_ms, raises) ==
    IF delay_ms <= 0
    THEN MirrorLockup({}, FALSE, 0)
    ELSE IF raises \in Cameras
    THEN MirrorLockup({c \in Cameras : c <= raises}, TRUE, 0)
    ELSE MirrorLockup(Cameras, FALSE, mirror_lockup_sleep(delay_ms))

\* execute_photo_action, lines 102-117
prepare_photo(timings, config, outcome) ==
    LET trigger_time == _calculate_action_time(timings, config, "start")
    IN  IF trigger_time = ValueError
        THEN PrepareFailed
        ELSE IF ~_configure_cameras_for_action(outcome)
        THEN ConfigureFailed
        ELSE Prepared(FALSE, "photo", trigger_time, NoTime, 0, 0,
                      mirror_lockup_sleep(config.mlu_delay),
                      {"configure", "wait"} \cup mirror_lockup_calls(config.mlu_delay))

\* execute_loop_action, lines 152-170
prepare_loop(timings, config, outcome) ==
    LET start == _calculate_action_time(timings, config, "start")
        end == _calculate_action_time(timings, config, "end")
    IN  IF start = ValueError \/ end = ValueError
        THEN PrepareFailed
        ELSE IF config.interval_or_count[1] <= 0
        THEN PrepareFailed
        ELSE IF ~_configure_cameras_for_action(outcome)
        THEN ConfigureFailed
        ELSE Prepared(FALSE, "loop", start, end, 0, 0, 0, {"configure", "wait"})

\* execute_interval_action, lines 228-256
prepare_interval(timings, config, outcome) ==
    LET start == _calculate_action_time(timings, config, "start")
        end == _calculate_action_time(timings, config, "end")
    IN  IF start = ValueError \/ end = ValueError
        THEN PrepareFailed
        ELSE LET count == config.interval_or_count[1]
                 duration == get_time_difference(start, end)
             IN  IF duration <= 0
                 THEN PrepareFailed
                 ELSE IF count <= 1
                 THEN prepare_photo(timings, config, outcome)
                 ELSE IF ~_configure_cameras_for_action(outcome)
                 THEN ConfigureFailed
                 ELSE Prepared(FALSE, "interval", start, end, duration, count, 0,
                               {"configure", "wait"})

\* execute_action, lines 59-74
prepare_action(timings, config, outcome) ==
    IF ~create_action_accepts(config)
    THEN PrepareFailed
    ELSE CASE config.action_type = "Photo" -> prepare_photo(timings, config, outcome)
           [] config.action_type = "Boucle" -> prepare_loop(timings, config, outcome)
           [] config.action_type = "Interval" -> prepare_interval(timings, config, outcome)

ExecuteAction ==
    /\ pc = "idle"
    /\ stats_before' = Stats
    /\ LET p == prepare_action(eclipse_timings, action, config_results)
           \* execute_photo_action, lines 113-114
           mlu == IF p.mode = "photo"
                  THEN _apply_mirror_lockup(action.mlu_delay, mlu_raises)
                  ELSE MirrorLockup({}, FALSE, 0)
       IN  IF p.failed
           THEN /\ Finish(FALSE)
                /\ calls_made' = calls_made \cup p.calls
                /\ UNCHANGED <<now, waitVars, mode, photos_taken, localVars,
                               mlu_invoked>>
           ELSE /\ mode' = p.mode
                /\ mlu_invoked' = mlu.invoked
                /\ calls_made' = calls_made \cup p.calls
                /\ start_time' = p.start_time
                /\ end_time' = p.end_time
                /\ total_duration' = p.total_duration
                /\ photo_count' = p.photo_count
                /\ now' = now + (IF mlu.raised THEN 0 ELSE p.sleep)
                /\ target_time' = p.start_time
                /\ wait_called_at' = now + (IF mlu.raised THEN 0 ELSE p.sleep)
                /\ wait_branch' = NoPoll
                /\ pc' = "wait"
                /\ UNCHANGED <<statVars, ret, loop_start_time, next_capture_time,
                               capture_count, i>>
    /\ UNCHANGED <<eclipse_timings, config_results, mlu_raises, calcVars, luaVars, captureVars, resolveVars, action, fanout_count, last_fanout,
                   device_successes, runVars>>

\* How long one capture_all call takes (each thread is joined for up to 30 s)
CaptureDurations == {0, 2, 12}

\* No more capture_all calls than this are followed within one action
MaxFanouts == 4

\* execute_photo_action, lines 119-134
PhotoCapture ==
    /\ pc = "wait_done" /\ mode = "photo"
    /\ \E capture_results \in CaptureResults, took \in CaptureDurations :
          /\ photos_taken' = photos_taken + successful_captures(capture_results)
          /\ device_successes' = device_successes + DevicesWithImage(capture_results)
          /\ last_fanout' = Fanout(now, now + took)
          /\ fanout_count' = fanout_count + 1
          /\ calls_made' = calls_made \cup {"capture"}
          /\ now' = now + took
          /\ LET success == successful_captures(capture_results) > 0
             IN  /\ ret' = IF success THEN "True" ELSE "False"
                 /\ actions_executed' =
                        IF success THEN actions_executed + 1 ELSE actions_executed
                 /\ execution_errors' =
                        IF success THEN execution_errors ELSE execution_errors + 1
          /\ pc' = "done"
    /\ UNCHANGED <<eclipse_timings, config_results, mluVars, calcVars, luaVars, captureVars, resolveVars, waitVars, action, mode, localVars,
                   stats_before, runVars>>

\* execute_loop_action, lines 173-175
LoopStart ==
    /\ pc = "wait_done" /\ mode = "loop"
    /\ loop_start_time' = now
    /\ next_capture_time' = now
    /\ capture_count' = 0
    /\ pc' = "loop"
    /\ UNCHANGED <<now, eclipse_timings, config_results, mluVars, calcVars, luaVars, captureVars, resolveVars, waitVars, action, mode, statVars,
                   ret, start_time, end_time, total_duration, photo_count, i, histVars,
                   runVars>>

\* execute_loop_action, line 183: the end time has passed
loop_ended_strict(current_seconds, end_seconds) == current_seconds > end_seconds

loop_ended(current_seconds, end_seconds) == current_seconds >= end_seconds

\* execute_loop_action, line 187: it is time for the next capture
capture_due_always(clock, next) == TRUE

capture_due(clock, next) == clock >= next

\* execute_loop_action, line 206: the time of the capture after this one
schedule_next_unchanged(next, interval_seconds) == next

schedule_next(next, interval_seconds) == next + interval_seconds

\* time.sleep(0.1): the seconds by which the clock read next is later
LoopSleeps == {0, 1}

\* execute_loop_action, lines 178-184 and 211-212: leave the loop
LoopBreak ==
    /\ pc = "loop"
    /\ loop_ended(time_to_seconds(datetime_now_time(now)), time_to_seconds(end_time))
    /\ Finish(capture_count > 0)
    /\ UNCHANGED <<now, eclipse_timings, config_results, mluVars, calcVars, luaVars, captureVars, resolveVars, waitVars, action, mode,
                   photos_taken, localVars, histVars, runVars>>

\* execute_loop_action, lines 187-209: one capture
LoopCapture ==
    /\ pc = "loop"
    /\ ~loop_ended(time_to_seconds(datetime_now_time(now)), time_to_seconds(end_time))
    /\ capture_due(now, next_capture_time)
    /\ fanout_count < MaxFanouts
    /\ \E capture_results \in CaptureResults, took \in CaptureDurations, slept \in LoopSleeps :
          LET mlu == _apply_mirror_lockup(action.mlu_delay, mlu_raises)
              at == now + mlu.slept
          IN  /\ mlu_invoked' = mlu.invoked
              /\ photos_taken' = photos_taken + successful_captures(capture_results)
              /\ device_successes' = device_successes + DevicesWithImage(capture_results)
              /\ last_fanout' = Fanout(at, at + took)
              /\ fanout_count' = fanout_count + 1
              /\ calls_made' = calls_made \cup {"capture"}
                                   \cup mirror_lockup_calls(action.mlu_delay)
              /\ now' = at + took + slept
    /\ capture_count' = capture_count + 1
    /\ next_capture_time' = schedule_next(next_capture_time, action.interval_or_count[1])
    /\ UNCHANGED <<pc, eclipse_timings, config_results, mlu_raises, calcVars, luaVars, captureVars, resolveVars, waitVars, action, mode,
                   actions_executed, execution_errors, ret, start_time, end_time,
                   total_duration, photo_count, loop_start_time, i, stats_before,
                   runVars>>

\* execute_loop_action, lines 187 (not yet time) and 209
LoopIdle ==
    /\ pc = "loop"
    /\ ~loop_ended(time_to_seconds(datetime_now_time(now)), time_to_seconds(end_time))
    /\ ~capture_due(now, next_capture_time)
    /\ fanout_count < MaxFanouts
    /\ \E slept \in LoopSleeps : now' = now + slept
    /\ UNCHANGED <<pc, eclipse_timings, config_results, mluVars, calcVars, luaVars, captureVars, resolveVars, waitVars, schedVars, runVars>>

\* execute_interval_action, line 259
IntervalStart ==
    /\ pc = "wait_done" /\ mode = "interval"
    /\ loop_start_time' = now
    /\ i' = 0
    /\ pc' = "interval"
    /\ UNCHANGED <<now, eclipse_timings, config_results, mluVars, calcVars, luaVars, captureVars, resolveVars, waitVars, action, mode, statVars,
                   ret, start_time, end_time, total_duration, photo_count,
                   next_capture_time, capture_count, histVars, runVars>>

\* for i in range(photo_count): whether index idx is still in the range
in_range_one_short(idx, count) == idx < count - 1

in_range(idx, count) == idx < count

\* The smallest whole second that is not before a / b (b > 0)
CeilDiv(a, b) == -((-a) \div b)

\* Lines 246 and 282: next_capture_time - interval_start_time for the capture
\* after capture idx, as the fraction (idx + 1) * total_duration / (count - 1)
next_offset(idx, duration) == (idx + 1) * duration

\* execute_interval_action, lines 261-289: one pass of the for loop
IntervalCapture ==
    /\ pc = "interval"
    /\ in_range(i, photo_count)
    /\ fanout_count < MaxFanouts
    /\ \E capture_results \in CaptureResults, took \in CaptureDurations :
          LET mlu == _apply_mirror_lockup(action.mlu_delay, mlu_raises)
              at == now + mlu.slept
              until == at + took
              den == photo_count - 1
              \* sleep_time > 0, with both sides multiplied by (photo_count - 1)
              sleeps == /\ i < photo_count - 1
                        /\ loop_start_time * den + next_offset(i, total_duration) > until * den
              wakes == loop_start_time + CeilDiv(next_offset(i, total_duration), den)
          IN  /\ mlu_invoked' = mlu.invoked
              /\ photos_taken' = photos_taken + successful_captures(capture_results)
              /\ device_successes' = device_successes + DevicesWithImage(capture_results)
              /\ last_fanout' = Fanout(at, until)
              /\ fanout_count' = fanout_count + 1
              /\ calls_made' = calls_made \cup {"capture"}
                                   \cup mirror_lockup_calls(action.mlu_delay)
              /\ now' = IF sleeps THEN wakes ELSE until
    /\ i' = i + 1
    /\ IF in_range(i + 1, photo_count)
       THEN UNCHANGED <<pc, ret, actions_executed, execution_errors>>
       ELSE Finish(TRUE)
    /\ UNCHANGED <<eclipse_timings, config_results, mlu_raises, calcVars, luaVars, captureVars, resolveVars, waitVars, action, mode, start_time,
                   end_time, total_duration, photo_count, loop_start_time,
                   next_capture_time, capture_count, stats_before, runVars>>

(***************************************************************************)
(* Specification Spec: one call of execute_action(action), entered when   *)
(* the time of day is the action's start time + delta.                    *)
(***************************************************************************)
SchedActions ==
    { \* Max - 10 s (tests/test_action_scheduler.py)
      ActionConfig("Photo", "Max", "-", Time(0, 0, 10), "", NoTime, NoNumber, 0),
      \* an absolute time, with mirror lockup
      ActionConfig("Photo", "-", "", Time(23, 59, 50), "", NoTime, NoNumber, 2500),
      \* a 10 s window with a 3 s interval
      ActionConfig("Boucle", "C2", "+", Time(0, 0, 0), "+", Time(0, 0, 10), <<3>>, 0),
      \* 23:59:50 to 23:59:58 every 3 s
      ActionConfig("Boucle", "C4", "+", Time(6, 28, 47), "+", Time(6, 28, 55), <<3>>, 0),
      \* 4 photos over 10 s, and 3 photos over 60 s
      ActionConfig("Interval", "C2", "+", Time(0, 0, 0), "+", Time(0, 0, 10), <<4>>, 0),
      ActionConfig("Interval", "C3", "-", Time(0, 0, 30), "+", Time(0, 0, 30), <<3>>, 0),
      \* a single photo
      ActionConfig("Interval", "Max", "-", Time(0, 0, 5), "+", Time(0, 0, 5), <<1>>, 0),
      \* rejected by create_action; fails at the end time
      ActionConfig("Boucle", "C2", "+", Time(0, 0, 0), "+", Time(0, 1, 0), <<0>>, 0),
      ActionConfig("Boucle", "-", "", Time(16, 0, 0), "+", Time(16, 1, 0), <<10>>, 0),
      \* an unknown reference; an invalid start operator; an empty end operator
      ActionConfig("Photo", "C5", "+", Time(0, 0, 10), NoString, NoTime, NoNumber, 0),
      ActionConfig("Photo", "Max", "*", Time(0, 0, 10), NoString, NoTime, NoNumber, 0),
      ActionConfig("Interval", "C2", "+", Time(0, 0, 0), "", Time(0, 0, 10), <<4>>, 0),
      \* a photo that carries end-time fields
      ActionConfig("Photo", "Max", "-", Time(0, 0, 10), "+", Time(0, 0, 20), NoNumber, 0),
      \* the end time equal to the start time
      ActionConfig("Boucle", "C2", "+", Time(0, 0, 0), "+", Time(0, 0, 0), <<3>>, 0),
      ActionConfig("Interval", "C2", "+", Time(0, 0, 0), "+", Time(0, 0, 0), <<4>>, 0) }

\* Time of day at entry, relative to the action's start time
EntryDeltas == {-15, 0, 45}

\* The counters of a new scheduler, and of one that has run two actions
InitialStats ==
    { [actions_executed |-> 0, photos_taken |-> 0, execution_errors |-> 0],
      [actions_executed |-> 1, photos_taken |-> 2, execution_errors |-> 1] }

EntryBase(timings, config) ==
    LET st == _calculate_action_time(timings, config, "start")
    IN  IF st = ValueError \/ st = NoTime THEN 0 ELSE time_to_seconds(st)

Init ==
    /\ pc = "idle"
    /\ eclipse_timings = TestTimings
    /\ action \in SchedActions
    /\ \E delta \in EntryDeltas :
          now = (EntryBase(eclipse_timings, action) + delta) % DaySeconds
    /\ \E stats \in InitialStats :
          /\ actions_executed = stats.actions_executed
          /\ photos_taken = stats.photos_taken
          /\ execution_errors = stats.execution_errors
          /\ stats_before = stats
    /\ mode = "none"
    /\ ret = "None"
    /\ start_time = NoTime /\ end_time = NoTime
    /\ total_duration = 0 /\ photo_count = 0
    /\ loop_start_time = 0 /\ next_capture_time = 0 /\ capture_count = 0 /\ i = 0
    /\ fanout_count = 0 /\ last_fanout = NoFanout /\ device_successes = 0
    /\ calls_made = {}
    /\ config_results = AllConfigured
    /\ CaptureIdle
    /\ MirrorLockupIdle
    /\ LuaIdle
    /\ CalcIdle
    /\ ControllerIdle
    /\ target_time = NoTime /\ wait_called_at = 0 /\ wait_branch = NoPoll
    /\ reference = "C1" /\ operator = "+" /\ offset_time = Time(0, 0, 0)
    /\ result_time = NoTime

Next ==
    \/ ExecuteAction
    \/ WaitPoll
    \/ WaitSleep
    \/ PhotoCapture
    \/ LoopStart
    \/ LoopBreak
    \/ LoopCapture
    \/ LoopIdle
    \/ IntervalStart
    \/ IntervalCapture

Spec == Init /\ [][Next]_vars

(***************************************************************************)
(* EclipsePhotographyController.run (main.py) after a successful          *)
(* initialize(): the for loop over config.actions.  RunLoop is the head   *)
(* of one iteration up to the call of execute_action (or the end of the   *)
(* loop and the return of run); the call itself is the scheduler's steps  *)
(* above; ActionReturned is the rest of the iteration.  SignalHandler is  *)
(* the handler main() installs for SIGINT and SIGTERM; it runs between    *)
(* any two steps.                                                          *)
(***************************************************************************)
\* run, line 191: the test of the shutdown flag at the head of an iteration
shutdown_check_ignored(flag) == FALSE

shutdown_check(flag) == flag

\* run, lines 197-206: whether a returned action ends the sequence
stops_on_failure_always(success, strict) == ~success

stops_on_failure_never(success, strict) == FALSE

stops_on_failure(success, strict) == ~success /\ strict

\* run, lines 208-219: the exit code after the loop
exit_code_of(errors) == IF errors = 0 THEN 0 ELSE 1

\* ActionScheduler.get_execution_stats, lines 382-394: a new dict of the counters
get_execution_stats ==
    [actions_executed |-> actions_executed, photos_taken |-> photos_taken,
     execution_errors |-> execution_errors]

RunLoop ==
    /\ pc = "run"
    /\ IF action_index > Len(actions) \/ shutdown_check(shutdown_requested)
       THEN /\ exit_code' = <<exit_code_of(get_execution_stats.execution_errors)>>
            /\ pc' = "exited"
            /\ UNCHANGED <<waitVars, schedVars, started>>
       ELSE /\ action' = actions[action_index]
            /\ started' = Append(started, action_index)
            /\ pc' = "idle"
            /\ mode' = "none"
            /\ ret' = "None"
            /\ start_time' = NoTime /\ end_time' = NoTime
            /\ total_duration' = 0 /\ photo_count' = 0
            /\ loop_start_time' = 0 /\ next_capture_time' = 0
            /\ capture_count' = 0 /\ i' = 0
            /\ fanout_count' = 0 /\ last_fanout' = NoFanout /\ device_successes' = 0
            /\ calls_made' = {}
            /\ target_time' = NoTime /\ wait_called_at' = 0 /\ wait_branch' = NoPoll
            /\ UNCHANGED <<statVars, stats_before, exit_code>>
    /\ UNCHANGED <<now, eclipse_timings, config_results, mluVars, calcVars, luaVars, captureVars, resolveVars, sequence_valid, actions, action_index,
                   strict_mode, shutdown_requested, action_results, reset_at>>

ActionReturned ==
    /\ pc = "done"
    /\ action_index \in 1..Len(actions)
    /\ action_results' = Append(action_results, ret)
    /\ IF stops_on_failure(ret = "True", strict_mode)
       THEN /\ exit_code' = <<1>>
            /\ pc' = "exited"
            /\ UNCHANGED action_index
       ELSE /\ action_index' = action_index + 1
            /\ pc' = "run"
            /\ UNCHANGED exit_code
    /\ UNCHANGED <<now, eclipse_timings, config_results, mluVars, calcVars, luaVars, captureVars, resolveVars, waitVars, schedVars, sequence_valid,
                   actions, strict_mode, shutdown_requested, started, reset_at>>

\* signal_handler, lines 245-249
SignalHandler ==
    /\ pc # "exited"
    /\ shutdown_requested' = TRUE
    /\ UNCHANGED <<pc, now, eclipse_timings, config_results, mluVars, calcVars, luaVars, captureVars, resolveVars, waitVars, schedVars, sequence_valid,
                   actions, action_index, strict_mode, exit_code, started, action_results,
                   reset_at>>

(***************************************************************************)
(* Specification SpecRun: one call of run() on a configured sequence,     *)
(* entered shortly before the first action's start time.                  *)
(***************************************************************************)
RunSequences ==
    { \* a loop and a photo, in the order of their times
      << ActionConfig("Boucle", "C2", "+", Time(0, 0, 0), "+", Time(0, 0, 10), <<3>>, 0),
         ActionConfig("Photo", "Max", "-", Time(0, 0, 10), "", NoTime, NoNumber, 0) >>,
      \* two photos over 10 s, and a photo
      << ActionConfig("Interval", "C2", "+", Time(0, 0, 0), "+", Time(0, 0, 10), <<2>>, 0),
         ActionConfig("Photo", "Max", "-", Time(0, 0, 10), "", NoTime, NoNumber, 0) >>,
      \* a loop whose end time does not resolve, between two photos
      << ActionConfig("Photo", "Max", "-", Time(0, 0, 10), "", NoTime, NoNumber, 0),
         ActionConfig("Boucle", "-", "", Time(16, 4, 0), "+", Time(16, 5, 0), <<10>>, 0),
         ActionConfig("Photo", "Max", "+", Time(0, 0, 5), "", NoTime, NoNumber, 0) >> }

\* Time of day at which run() reaches its loop
RunEntryTimes == {Time(16, 2, 34)}

InitRun ==
    /\ pc = "run"
    /\ eclipse_timings = TestTimings
    /\ \E t \in RunEntryTimes : now = time_to_seconds(t)
    /\ sequence_valid = "True"
    /\ actions \in RunSequences
    /\ action_index = 1
    /\ strict_mode \in BOOLEAN
    /\ shutdown_requested = FALSE
    /\ exit_code = NoNumber
    /\ started = <<>>
    /\ action_results = <<>>
    /\ reset_at = 0
    /\ SchedulerIdle
    /\ target_time = NoTime /\ wait_called_at = 0 /\ wait_branch = NoPoll
    /\ reference = "C1" /\ operator = "+" /\ offset_time = Time(0, 0, 0)
    /\ result_time = NoTime

NextRun ==
    \/ RunLoop
    \/ ActionReturned
    \/ SignalHandler
    \/ Next

SpecRun == InitRun /\ [][NextRun]_vars

(***************************************************************************)
(* C4: when the target's time of day lay ahead of the time at which       *)
(* wait_until was entered by less than 12 hours (midnight may lie in      *)
(* between), wait_until has not returned before the host clock reached    *)
(* the target: at its return at least that much time has elapsed.         *)
(***************************************************************************)
C4_NoEarlyReturn ==
    (pc = "wait_done" /\ AheadAtEntry < 43200) => WaitElapsed >= AheadAtEntry

\* Entered before midnight for a target after midnight, and returned
C4_Witness ==
    /\ pc = "wait_done"
    /\ AheadAtEntry \in 1..43199
    /\ WaitEnteredSeconds > WaitTargetSeconds
    /\ WaitElapsed >= AheadAtEntry

(***************************************************************************)
(* C5: a poll that finds the target passed by at most 30 seconds of       *)
(* elapsed time treats it as reached and returns, for every target time   *)
(* of day, a target just before midnight polled just after midnight       *)
(* included.                                                               *)
(***************************************************************************)
C5_PassedWithinToleranceReturns ==
    (JustPolled /\ PassedBy <= 30) => pc = "wait_done"

StartInstant ==
    LET r == time_to_seconds(start_time) - WaitEnteredSeconds
    IN  IF r <= -43200 THEN wait_called_at + r + 86400 ELSE wait_called_at + r

\* The loop of a Boucle or Interval began in the second of its resolved start
StartedOnTime == loop_start_time = StartInstant

\* A step that calls capture_all
FanoutStep == fanout_count' = fanout_count + 1

\* When the scheduler was free to make the next capture_all call
ReadyAt == IF fanout_count = 0 THEN loop_start_time ELSE last_fanout.until

Max(a, b) == IF a >= b THEN a ELSE b

(***************************************************************************)
(* C2: a Photo action whose capture was fanned out succeeds if and only   *)
(* if at least one device returned an image; photos_taken has grown by    *)
(* exactly the number of devices that returned one, and when the action   *)
(* succeeded actions_executed has grown by 1 (and execution_errors not).  *)
(***************************************************************************)
C2_PhotoFanout ==
    (pc = "done" /\ mode = "photo" /\ fanout_count = 1) =>
        /\ (ret = "True") <=> (device_successes > 0)
        /\ photos_taken = stats_before.photos_taken + device_successes
        /\ (ret = "True") =>
              /\ actions_executed = stats_before.actions_executed + 1
              /\ execution_errors = stats_before.execution_errors

\* One of the two devices returned an image: successful, one photo counted
C2_Witness ==
    /\ pc = "done" /\ action.action_type = "Photo" /\ fanout_count = 1
    /\ device_successes = 1
    /\ ret = "True"
    /\ photos_taken = stats_before.photos_taken + 1
    /\ actions_executed = stats_before.actions_executed + 1

(***************************************************************************)
(* C3: for every action kind, an action none of whose capture fan-outs    *)
(* had a device returning an image is failed: execute_action returns      *)
(* False, execution_errors has grown by 1, and photos_taken and           *)
(* actions_executed are unchanged.                                         *)
(***************************************************************************)
C3_ZeroSuccessFails ==
    (pc = "done" /\ fanout_count > 0 /\ device_successes = 0) =>
        /\ ret = "False"
        /\ execution_errors = stats_before.execution_errors + 1
        /\ photos_taken = stats_before.photos_taken
        /\ actions_executed = stats_before.actions_executed

(***************************************************************************)
(* C7: a Boucle with resolved start s, end e and interval v > 0 whose     *)
(* loop begins at s makes at most ceil((e - s) / v) captures, and makes   *)
(* none once the clock is at or after e.                                   *)
(***************************************************************************)
C7_LoopBound ==
    (mode = "loop" /\ pc \in {"loop", "done"} /\ StartedOnTime) =>
        LET window == get_time_difference(start_time, end_time)
        IN  /\ fanout_count <= CeilDiv(window, action.interval_or_count[1])
            /\ fanout_count > 0 => last_fanout.at < StartInstant + window

(***************************************************************************)
(* C8: an Interval action with positive duration makes exactly n          *)
(* capture_all calls when its count n is greater than 1 (never more       *)
(* while it runs, n when it has returned, whatever the devices            *)
(* returned), and when n is 1 or less it runs as one Photo action at the   *)
(* start time, with exactly one capture_all call.                          *)
(***************************************************************************)
C8_IntervalCount ==
    (action.action_type = "Interval" /\ mode # "none") =>
        LET n == action.interval_or_count[1]
        IN  IF n > 1
            THEN /\ mode = "interval"
                 /\ fanout_count <= n
                 /\ pc = "done" => (fanout_count = n /\ ret = "True")
            ELSE /\ mode = "photo"
                 /\ target_time = start_time
                 /\ fanout_count <= 1
                 /\ pc = "done" => fanout_count = 1

\* Four captures were made although no device ever returned an image
C8_Witness ==
    /\ pc = "done" /\ action.action_type = "Interval"
    /\ action.interval_or_count[1] = 4
    /\ fanout_count = 4
    /\ device_successes = 0

(***************************************************************************)
(* C9: in an Interval action with count n > 1 and duration d > 0, capture *)
(* i is made at its slot start + i * d / (n - 1) counted from the         *)
(* resolved start time (or as soon as the previous capture has returned,  *)
(* when that is later), so that the first capture is made at the resolved *)
(* start time and the last at the resolved end time.                      *)
(***************************************************************************)
C9_IntervalSchedule ==
    [][(mode = "interval" /\ FanoutStep) =>
          last_fanout'.at =
              Max(StartInstant + CeilDiv(fanout_count * total_duration, photo_count - 1),
                  ReadyAt)]_vars

(***************************************************************************)
(* C10: within a Boucle or Interval action the capture_all calls are made *)
(* one after another, in non-decreasing time order, and the k-th one      *)
(* (k = 0, 1, ...) is never made before its slot, the beginning of the    *)
(* loop + k * interval, which itself is not before the resolved start.    *)
(***************************************************************************)
C10_InOrderNotBeforeSlot ==
    [][(mode \in {"loop", "interval"} /\ FanoutStep) =>
          /\ last_fanout'.at >= ReadyAt
          /\ last_fanout'.until >= last_fanout'.at
          /\ loop_start_time >= StartInstant
          /\ IF mode = "loop"
             THEN last_fanout'.at >=
                      loop_start_time + fanout_count * action.interval_or_count[1]
             ELSE last_fanout'.at * (photo_count - 1) >=
                      loop_start_time * (photo_count - 1) + fanout_count * total_duration]_vars

\* The third capture of a Boucle, made when its slot had come
C10_Witness ==
    /\ mode = "loop" /\ pc = "loop"
    /\ fanout_count = 3
    /\ last_fanout.at >= loop_start_time + 2 * action.interval_or_count[1]

(***************************************************************************)
(* C1: for every reference, both operators and every offset,               *)
(* convert_relative_time returns the time-of-day whose seconds since       *)
(* midnight are (contact[reference] + offset) mod 86400 for '+' and        *)
(* (contact[reference] - offset) mod 86400 for '-', a value in [0, 86400). *)
(***************************************************************************)
C1_ResolveIsModular ==
    (pc = "resolve_done" /\ reference \in References /\ operator \in {"+", "-"}) =>
        LET base == time_to_seconds(eclipse_timings[reference])
            off == time_to_seconds(offset_time)
            want == IF operator = "+" THEN (base + off) % 86400
                                      ELSE (base - off) % 86400
        IN  /\ result_time # ValueError
            /\ ValidTime(result_time)
            /\ time_to_seconds(result_time) = want
            /\ time_to_seconds(result_time) \in 0..86399

\* C4 = 17:31:03 plus 07:00:00 has wrapped past midnight to 00:31:03
C1_Witness ==
    /\ pc = "resolve_done"
    /\ eclipse_timings = TestTimings
    /\ reference = "C4" /\ operator = "+" /\ offset_time = Time(7, 0, 0)
    /\ result_time = Time(0, 31, 3)

(***************************************************************************)
(* Observations of a run of the sequence                                   *)
(***************************************************************************)
\* The calls of execute_action that returned False
FailedCalls == {k \in DOMAIN action_results : action_results[k] = "False"}

\* run is between two iterations of its loop, or has returned
BetweenActions == pc \in {"run", "exited"}

(***************************************************************************)
(* C11: without strict mode and without a shutdown request, run passes    *)
(* every configured action to execute_action exactly once, in             *)
(* configuration order, the next one only after the previous call has     *)
(* returned; each failed action has added 1 to execution_errors, and the  *)
(* actions after it are executed all the same.                             *)
(***************************************************************************)
C11_EveryActionInOrder ==
    (~strict_mode /\ ~shutdown_requested) =>
        /\ started = [k \in 1..Len(started) |-> k]
        /\ Len(started) = Len(action_results) + (IF BetweenActions THEN 0 ELSE 1)
        /\ BetweenActions => execution_errors = Cardinality(FailedCalls)
        /\ pc = "exited" =>
              /\ Len(started) = Len(actions)
              /\ Len(action_results) = Len(actions)
              /\ exit_code = <<exit_code_of(Cardinality(FailedCalls))>>

\* The second of three actions failed, the third was executed and succeeded
C11_Witness ==
    /\ pc = "exited" /\ ~strict_mode /\ ~shutdown_requested
    /\ started = <<1, 2, 3>>
    /\ action_results = <<"True", "False", "True">>
    /\ execution_errors = 1
    /\ exit_code = <<1>>

(***************************************************************************)
(* C12: in strict mode, as soon as a call of execute_action has returned  *)
(* False the sequence has stopped: run has returned exit code 1, the      *)
(* failed call is the last one made, and the scheduler still holds the    *)
(* failed action, no later action having been passed to it.                *)
(***************************************************************************)
C12_StrictStopsAtFirstFailure ==
    (strict_mode /\ FailedCalls # {}) =>
        /\ pc = "exited"
        /\ exit_code = <<1>>
        /\ FailedCalls = {Len(action_results)}
        /\ Len(started) = Len(action_results)
        /\ action = actions[Len(started)]

\* The second of three actions failed: the third was never started
C12_Witness ==
    /\ strict_mode /\ pc = "exited"
    /\ Len(actions) = 3
    /\ started = <<1, 2>>
    /\ action_results = <<"True", "False">>
    /\ exit_code = <<1>>

C14_WaitsAreInterruptible ==
    [][shutdown_requested =>
          /\ ~FanoutStep
          /\ ~(pc = "wait_sleep" /\ pc' = "wait")]_vars

(***************************************************************************)
(* C15: an action whose reference is the absolute marker '-' resolves its *)
(* times to the configured times of day as they are: the start time of    *)
(* every action, and the end time of a Boucle or Interval as well, so     *)
(* that such an action does not fail at the resolution of its times.      *)
(***************************************************************************)
C15_AbsoluteTimesResolve ==
    (action.time_ref = "-" /\ create_action_accepts(action) /\ pc # "idle") =>
        /\ start_time = action.start_time
        /\ action.action_type \in {"Boucle", "Interval"} =>
              /\ _calculate_action_time(eclipse_timings, action, "end") = action.end_time
              /\ end_time = action.end_time

(***************************************************************************)
(* Configuration errors of the action being executed                       *)
(***************************************************************************)
LoopKinds == {"Boucle", "Interval"}
UnknownReference == action.time_ref \notin (References \cup {"-"})
StartOperatorInvalid == action.time_ref # "-" /\ action.start_operator \notin {"+", "-"}
EndOperatorInvalid == action.action_type \in LoopKinds /\ action.end_operator \notin {"+", "-"}
ConfigurationError ==
    \/ ~create_action_accepts(action)
    \/ UnknownReference
    \/ StartOperatorInvalid
    \/ EndOperatorInvalid

(***************************************************************************)
(* C16: an action with a configuration error (rejected by create_action,  *)
(* unknown reference, invalid operator) fails before anything is          *)
(* scheduled: execute_action has returned False and added 1 to            *)
(* execution_errors, and no configure, mirror-lockup, wait or capture     *)
(* call was made; the other counters are unchanged.                        *)
(***************************************************************************)
C16_ConfigErrorFailsBeforeScheduling ==
    (ConfigurationError /\ pc # "idle") =>
        /\ pc = "done"
        /\ ret = "False"
        /\ execution_errors = stats_before.execution_errors + 1
        /\ actions_executed = stats_before.actions_executed
        /\ photos_taken = stats_before.photos_taken
        /\ calls_made = {}
        /\ fanout_count = 0
        /\ wait_branch = NoPoll

\* An Interval whose end operator is empty has failed on a used scheduler
C16_Witness ==
    /\ pc = "done" /\ ret = "False"
    /\ action.action_type = "Interval" /\ EndOperatorInvalid
    /\ create_action_accepts(action)
    /\ stats_before.execution_errors = 1 /\ execution_errors = 2
    /\ calls_made = {}

(***************************************************************************)
(* Construction of an action: ActionConfig(...) runs __post_init__, and   *)
(* create_action builds the action object and validates it.               *)
(***************************************************************************)
\* ActionConfig.__post_init__ (eclipse_config.py, lines 40-44) does not raise
post_init_accepts(config) ==
    ~(/\ config.action_type \in {"Boucle", "Interval"}
      /\ (config.end_time = NoTime \/ config.interval_or_count = NoNumber))

ConstructActionConfig ==
    /\ pc = "construct"
    /\ pc' = IF post_init_accepts(action) THEN "create" ELSE "config_rejected"
    /\ UNCHANGED <<now, eclipse_timings, config_results, mluVars, calcVars, luaVars, captureVars, resolveVars, waitVars, schedVars, runVars>>

CreateAction ==
    /\ pc = "create"
    /\ pc' = IF create_action_accepts(action) THEN "created" ELSE "create_rejected"
    /\ UNCHANGED <<now, eclipse_timings, config_results, mluVars, calcVars, luaVars, captureVars, resolveVars, waitVars, schedVars, runVars>>

(***************************************************************************)
(* Specification SpecCreate: one action specification is constructed      *)
(***************************************************************************)
ActionTypeInputs == {"Photo", "Boucle", "Interval", "Video"}
TimeRefInputs == {"C2", "-", NoString}
StartOperatorInputs == {"+", "", NoString}
EndOperatorInputs == {"+", "", NoString}
StartTimeInputs == {Time(0, 0, 10), NoTime}
EndTimeInputs == {Time(0, 0, 20), NoTime}
IntervalOrCountInputs == {NoNumber, <<0 - 1>>, <<0>>, <<3>>}

InitCreate ==
    /\ pc = "construct"
    /\ \E type \in ActionTypeInputs, ref \in TimeRefInputs, sop \in StartOperatorInputs,
          st \in StartTimeInputs, eop \in EndOperatorInputs, et \in EndTimeInputs,
          ioc \in IntervalOrCountInputs :
          action = ActionConfig(type, ref, sop, st, eop, et, ioc, 0)
    /\ now = 0
    /\ eclipse_timings = TestTimings
    /\ mode = "none"
    /\ actions_executed = 0 /\ photos_taken = 0 /\ execution_errors = 0
    /\ ret = "None"
    /\ start_time = NoTime /\ end_time = NoTime
    /\ total_duration = 0 /\ photo_count = 0
    /\ loop_start_time = 0 /\ next_capture_time = 0 /\ capture_count = 0 /\ i = 0
    /\ fanout_count = 0 /\ last_fanout = NoFanout /\ device_successes = 0
    /\ stats_before = [actions_executed |-> 0, photos_taken |-> 0, execution_errors |-> 0]
    /\ calls_made = {}
    /\ config_results = AllConfigured
    /\ CaptureIdle
    /\ MirrorLockupIdle
    /\ LuaIdle
    /\ CalcIdle
    /\ ControllerIdle
    /\ target_time = NoTime /\ wait_called_at = 0 /\ wait_branch = NoPoll
    /\ reference = "C1" /\ operator = "+" /\ offset_time = Time(0, 0, 0)
    /\ result_time = NoTime

NextCreate == ConstructActionConfig \/ CreateAction

SpecCreate == InitCreate /\ [][NextCreate]_vars

\* A Boucle or Interval specification without an end time, without its third
\* numeric field, or with that field not positive
MissingLoopField ==
    /\ action.action_type \in LoopKinds
    /\ (action.end_time = NoTime \/ action.interval_or_count = NoNumber)
NonPositiveThirdField ==
    /\ action.action_type \in LoopKinds
    /\ action.interval_or_count # NoNumber
    /\ action.interval_or_count[1] <= 0

C18_AcceptedLoopEndResolves ==
    (pc = "created" /\ action.action_type \in LoopKinds) =>
        /\ action.time_ref # NoString
        /\ action.end_operator # NoString
        /\ action.end_time # NoTime
        /\ _calculate_action_time(eclipse_timings, action, "end") # ValueError

(***************************************************************************)
(* C19: create_action accepts a Photo only if its reference, operator and *)
(* start time are present and no end-time field (end operator, end time)  *)
(* is set.                                                                  *)
(***************************************************************************)
C19_PhotoWithoutEndFields ==
    (pc = "created" /\ action.action_type = "Photo") =>
        /\ action.time_ref # NoString
        /\ action.start_operator # NoString
        /\ action.start_time # NoTime
        /\ action.end_operator = NoString
        /\ action.end_time = NoTime

\* The resolved start and end times of the action are the same time of day
ZeroDuration ==
    LET st == _calculate_action_time(eclipse_timings, action, "start")
        et == _calculate_action_time(eclipse_timings, action, "end")
    IN  /\ st # ValueError /\ et # ValueError
        /\ get_time_difference(st, et) <= 0

(***************************************************************************)
(* C20: a Boucle or Interval whose resolved duration from start to end is *)
(* not positive (the end time equals the start time) fails: it makes no   *)
(* capture_all call at any point, and when execute_action has returned    *)
(* it has returned False and added 1 to execution_errors.                  *)
(***************************************************************************)
C20_ZeroDurationFails ==
    (action.action_type \in LoopKinds /\ create_action_accepts(action) /\ ZeroDuration) =>
        /\ fanout_count = 0
        /\ photos_taken = stats_before.photos_taken
        /\ pc = "done" =>
              /\ ret = "False"
              /\ execution_errors = stats_before.execution_errors + 1
              /\ actions_executed = stats_before.actions_executed

\* A Boucle from C2 to C2 waited for its start, left its loop at once and failed
C20_Witness ==
    /\ pc = "done" /\ ret = "False"
    /\ action.action_type = "Boucle" /\ ZeroDuration
    /\ mode = "loop" /\ wait_branch.branch = "reached"
    /\ fanout_count = 0
    /\ execution_errors = stats_before.execution_errors + 1

(***************************************************************************)
(* Specification SpecConfigure: one call of execute_action on devices     *)
(* that answer the configuration in every possible way.                    *)
(***************************************************************************)
ConfigureActions ==
    { ActionConfig("Photo", "Max", "-", Time(0, 0, 10), "", NoTime, NoNumber, 0),
      ActionConfig("Boucle", "C2", "+", Time(0, 0, 0), "+", Time(0, 0, 10), <<3>>, 0),
      ActionConfig("Interval", "C2", "+", Time(0, 0, 0), "+", Time(0, 0, 10), <<4>>, 0) }

\* Entered before the start time, or in its second
ConfigureEntryDeltas == {-15, 0}

InitConfigure ==
    /\ pc = "idle"
    /\ eclipse_timings = TestTimings
    /\ config_results \in ConfigResults
    /\ CaptureIdle
    /\ MirrorLockupIdle
    /\ LuaIdle
    /\ CalcIdle
    /\ action \in ConfigureActions
    /\ \E delta \in ConfigureEntryDeltas :
          now = (EntryBase(eclipse_timings, action) + delta) % DaySeconds
    /\ actions_executed = 0 /\ photos_taken = 0 /\ execution_errors = 0
    /\ stats_before = [actions_executed |-> 0, photos_taken |-> 0, execution_errors |-> 0]
    /\ mode = "none"
    /\ ret = "None"
    /\ start_time = NoTime /\ end_time = NoTime
    /\ total_duration = 0 /\ photo_count = 0
    /\ loop_start_time = 0 /\ next_capture_time = 0 /\ capture_count = 0 /\ i = 0
    /\ fanout_count = 0 /\ last_fanout = NoFanout /\ device_successes = 0
    /\ calls_made = {}
    /\ ControllerIdle
    /\ target_time = NoTime /\ wait_called_at = 0 /\ wait_branch = NoPoll
    /\ reference = "C1" /\ operator = "+" /\ offset_time = Time(0, 0, 0)
    /\ result_time = NoTime

SpecConfigure == InitConfigure /\ [][Next]_vars

\* configure_all returned, and reported a failure for at least one device
ConfigurationFailureReported ==
    ~config_results.raised /\ failed_configs(config_results) # {}

(***************************************************************************)
(* C21: when the configuration of one or more devices (of all of them,    *)
(* too) is reported as failed, the action is not aborted: it goes on to   *)
(* wait for its start time and to capture, and what it returns is decided *)
(* by the captures alone (a Photo makes its capture and succeeds exactly  *)
(* when a device returned an image, a Boucle succeeds exactly when it     *)
(* made a capture, an Interval makes all its captures and succeeds).      *)
(***************************************************************************)
C21_ConfigureIsBestEffort ==
    (ConfigurationFailureReported /\ pc # "idle") =>
        /\ calls_made \cap {"configure", "wait"} = {"configure", "wait"}
        /\ mode # "none"
        /\ pc \notin {"wait", "wait_sleep"} => wait_branch # NoPoll
        /\ pc = "done" =>
              /\ mode = "photo" =>
                    (fanout_count = 1 /\ ((ret = "True") <=> (device_successes > 0)))
              /\ mode = "loop" =>
                    (fanout_count = capture_count /\ ((ret = "True") <=> (fanout_count > 0)))
              /\ mode = "interval" =>
                    (fanout_count = photo_count /\ ret = "True")

\* Every device refused the settings; the photo was taken and the action succeeded
C21_Witness ==
    /\ pc = "done" /\ mode = "photo"
    /\ failed_configs(config_results) = Cameras
    /\ fanout_count = 1 /\ device_successes = NumCameras
    /\ ret = "True"

\* A step of a Boucle that calls capture_all and gets no image from any device
FailedIteration ==
    /\ mode = "loop"
    /\ FanoutStep
    /\ device_successes' = device_successes

(***************************************************************************)
(* C22: an iteration of a Boucle in which no device returned an image     *)
(* does not stop the loop: the method stays in its loop, nothing is       *)
(* returned and no error is counted, and the next capture is scheduled    *)
(* one interval after this one's slot; the loop is left only when the     *)
(* time of day read at the head of an iteration has reached the end time. *)
(***************************************************************************)
C22_FailedIterationContinues ==
    [][/\ FailedIteration =>
             /\ pc' = "loop"
             /\ ret' = "None"
             /\ execution_errors' = execution_errors
             /\ capture_count' = capture_count + 1
             /\ next_capture_time' = next_capture_time + action.interval_or_count[1]
       /\ (mode = "loop" /\ pc = "loop" /\ pc' # "loop") =>
             /\ pc' = "done"
             /\ time_to_seconds(datetime_now_time(now)) >= time_to_seconds(end_time)]_vars

\* Two iterations without an image, and the third capture is scheduled
C22_Witness ==
    /\ mode = "loop" /\ pc = "loop"
    /\ fanout_count = 2 /\ device_successes = 0
    /\ next_capture_time = loop_start_time + 2 * action.interval_or_count[1]
    /\ time_to_seconds(datetime_now_time(now)) < time_to_seconds(end_time)

(***************************************************************************)
(* MultiCameraManager.capture_all thread by thread, called by             *)
(* execute_photo_action (lines 121-134).  Every active camera gets a      *)
(* thread that calls capture_image and then stores what it returned (None *)
(* when it raised) in the dict `results`, under the lock; the caller      *)
(* joins the threads in turn, each for at most 30 s, and returns the dict *)
(* itself.  A thread that is still running when its join times out goes   *)
(* on running and stores its result whenever its capture_image returns.   *)
(***************************************************************************)
JoinTimeoutSeconds == 30

\* capture_all, lines 158-190: the dict is created and the threads are started
CaptureAllStart ==
    /\ pc = "capture_call"
    /\ results' = EmptyResults
    /\ alive' = Cameras
    /\ join_index' = 0
    /\ timed_out' = {}
    /\ last_fanout' = Fanout(now, now)
    /\ calls_made' = calls_made \cup {"capture"}
    /\ pc' = "join"
    /\ UNCHANGED <<now, eclipse_timings, config_results, mluVars, calcVars, luaVars, returned_results, resolveVars,
                   waitVars, action, mode, statVars, ret, localVars, fanout_count,
                   device_successes, stats_before, runVars>>

\* capture_single_camera, lines 172-180: capture_image has returned or raised
ThreadFinish ==
    /\ \E camera_id \in alive, result \in {"image.jpg", NoneResult} :
          /\ results' = (camera_id :> result) @@ results
          /\ alive' = alive \ {camera_id}
    /\ UNCHANGED <<pc, now, eclipse_timings, config_results, mluVars, calcVars, luaVars, join_index, timed_out,
                   returned_results, resolveVars, waitVars, schedVars, runVars>>

\* capture_all, lines 193-197: thread.join(timeout=30.0) returns, because the
\* thread has ended or because 30 s have passed
JoinThread ==
    /\ pc = "join"
    /\ join_index < NumCameras
    /\ IF join_index \in alive
       THEN /\ timed_out' = timed_out \cup {join_index}
            /\ now' = now + JoinTimeoutSeconds
       ELSE UNCHANGED <<timed_out, now>>
    /\ join_index' = join_index + 1
    /\ UNCHANGED <<pc, eclipse_timings, config_results, mluVars, calcVars, luaVars, results, alive, returned_results,
                   resolveVars, waitVars, schedVars, runVars>>

\* capture_all, lines 199-209: return results
CaptureAllReturn ==
    /\ pc = "join"
    /\ join_index = NumCameras
    /\ returned_results' = results
    /\ last_fanout' = Fanout(last_fanout.at, now)
    /\ pc' = "capture_returned"
    /\ UNCHANGED <<now, eclipse_timings, config_results, mluVars, calcVars, luaVars, results, alive, join_index,
                   timed_out, resolveVars, waitVars, action, mode, statVars, ret, localVars,
                   fanout_count, device_successes, stats_before, calls_made, runVars>>

\* execute_photo_action, lines 124-134, and execute_action, lines 76-83: the
\* caller counts the values of the dict it was handed
CountCaptures ==
    /\ pc = "capture_returned"
    /\ photos_taken' = photos_taken + successful_captures(results)
    /\ device_successes' = device_successes + DevicesWithImage(results)
    /\ fanout_count' = fanout_count + 1
    /\ Finish(successful_captures(results) > 0)
    /\ UNCHANGED <<now, eclipse_timings, config_results, mluVars, calcVars, luaVars, captureVars, resolveVars, waitVars,
                   action, mode, localVars, last_fanout, stats_before, calls_made, runVars>>

(***************************************************************************)
(* Specification SpecCapture: a Photo action from the return of its       *)
(* wait_until on.                                                           *)
(***************************************************************************)
CaptureActions ==
    { ActionConfig("Photo", "Max", "-", Time(0, 0, 10), "", NoTime, NoNumber, 0),
      ActionConfig("Photo", "-", "", Time(23, 59, 50), "", NoTime, NoNumber, 0) }

InitCapture ==
    /\ pc = "capture_call"
    /\ eclipse_timings = TestTimings
    /\ config_results = AllConfigured
    /\ CaptureIdle
    /\ MirrorLockupIdle
    /\ LuaIdle
    /\ CalcIdle
    /\ action \in CaptureActions
    /\ mode = "photo"
    /\ start_time = _calculate_action_time(eclipse_timings, action, "start")
    /\ now = time_to_seconds(start_time)
    /\ target_time = start_time
    /\ wait_called_at = now
    /\ wait_branch = wait_until_body(now, time_to_seconds(target_time))
    /\ \E stats \in InitialStats :
          /\ actions_executed = stats.actions_executed
          /\ photos_taken = stats.photos_taken
          /\ execution_errors = stats.execution_errors
          /\ stats_before = stats
    /\ ret = "None"
    /\ end_time = NoTime
    /\ total_duration = 0 /\ photo_count = 0
    /\ loop_start_time = 0 /\ next_capture_time = 0 /\ capture_count = 0 /\ i = 0
    /\ fanout_count = 0 /\ last_fanout = NoFanout /\ device_successes = 0
    /\ calls_made = {"configure", "wait"}
    /\ ControllerIdle
    /\ reference = "C1" /\ operator = "+" /\ offset_time = Time(0, 0, 0)
    /\ result_time = NoTime

NextCapture ==
    \/ CaptureAllStart
    \/ ThreadFinish
    \/ JoinThread
    \/ CaptureAllReturn
    \/ CountCaptures

SpecCapture == InitCapture /\ [][NextCapture]_vars

\* capture_all has returned its dict to execute_photo_action
CaptureAllReturned == pc \in {"capture_returned", "done"}

\* The images in the returned dict that come from devices whose join did not
\* time out
ImagesOfPunctualDevices ==
    Cardinality({c \in DOMAIN returned_results \ timed_out :
                    returned_results[c] # NoneResult})

(***************************************************************************)
(* C23: a device whose thread outlasted the join timeout counts as failed *)
(* for this action only: the dict that capture_all returned is not        *)
(* changed by the thread's late completion, and the action's counters and *)
(* result come from the other devices alone (photos_taken grows by their  *)
(* images, the action succeeds exactly when there is one).                 *)
(***************************************************************************)
C23_TimedOutDeviceIsolated ==
    /\ CaptureAllReturned => results = returned_results
    /\ pc = "done" =>
          /\ photos_taken = stats_before.photos_taken + ImagesOfPunctualDevices
          /\ (ret = "True") <=> (ImagesOfPunctualDevices > 0)

(***************************************************************************)
(* C24: the dict returned by capture_all has exactly one entry for every  *)
(* active camera, an image path or None, also for a camera whose capture  *)
(* raised or whose thread did not end within the join timeout, whatever   *)
(* the order in which the threads ran.                                     *)
(***************************************************************************)
C24_OneEntryPerCamera ==
    CaptureAllReturned =>
        /\ DOMAIN returned_results = Cameras
        /\ \A c \in Cameras : returned_results[c] \in {"image.jpg", NoneResult}

(***************************************************************************)
(* lua_simulator.py: the reference implementation (eclipse_OZ.lua as the  *)
(* simulator reproduces it).  Times are seconds since midnight.           *)
(***************************************************************************)
convert_second(hrs, mins, secs) == hrs * 3600 + mins * 60 + secs

\* read_config: the table of the five contacts, in seconds
table_ref(timings) ==
    [r \in References |-> convert_second(timings[r].hour, timings[r].minute,
                                         timings[r].second)]

\* LuaSimulator.convert_time: 0 is returned after an error was logged
convert_time(ref, operation, time_in, table) ==
    IF ref \notin References THEN 0
    ELSE LET time_ref == table[ref]
         IN  CASE operation = "-" ->
                     IF time_ref - time_in < 0 THEN 86400 + (time_ref - time_in)
                                               ELSE time_ref - time_in
               [] operation = "+" ->
                     IF time_ref + time_in > 86400 THEN (time_ref + time_in) - 86400
                                                   ELSE time_ref + time_in
               [] OTHER -> 0

\* The reference resolves the arguments convert_relative_time was called with
LuaConvertTime ==
    /\ pc = "resolve_done"
    /\ time_out' = <<convert_time(reference, operator,
                                  convert_second(offset_time.hour, offset_time.minute,
                                                 offset_time.second),
                                  table_ref(eclipse_timings))>>
    /\ pc' = "compared"
    /\ UNCHANGED <<now, eclipse_timings, config_results, mluVars, calcVars, captureVars, intervalle,
                   resolveVars, waitVars, schedVars, runVars>>

(***************************************************************************)
(* Specification SpecCompare: convert_relative_time and the reference's   *)
(* convert_time on the same arguments                                      *)
(***************************************************************************)
NextCompare == ConvertRelativeTime \/ LuaConvertTime

SpecCompare == InitResolve /\ [][NextCompare]_vars

(***************************************************************************)
(* C25: for every reference, both operators and every offset in           *)
(* [0, 86400), the reference's convert_time and convert_relative_time     *)
(* return the same seconds since midnight.                                 *)
(***************************************************************************)
C25_SameAsReference ==
    (pc = "compared" /\ reference \in References /\ operator \in {"+", "-"}) =>
        /\ result_time # ValueError
        /\ time_out = <<time_to_seconds(result_time)>>

\* simulate_main, lines 318-336: the start or end time of an action line
lua_time(timings, config, oper, t) ==
    IF config.time_ref = "-"
    THEN convert_second(t.hour, t.minute, t.second)
    ELSE convert_time(config.time_ref, oper, convert_second(t.hour, t.minute, t.second),
                      table_ref(timings))

\* simulate_main, lines 338-347: `interval` as the fraction num / den
lua_interval(timings, config) ==
    LET time_start == lua_time(timings, config, config.start_operator, config.start_time)
        time_end == lua_time(timings, config, config.end_operator, config.end_time)
    IN  IF config.action_type = "Interval"
        THEN IF time_end > 0
             THEN [num |-> time_end - time_start, den |-> config.interval_or_count[1]]
             ELSE [num |-> 1, den |-> 1]
        ELSE [num |-> config.interval_or_count[1], den |-> 1]

\* boucle, line 170: max(1, math.ceil(intervalle - 0.5)) of the fraction num / den
boucle_intervalle(interval) ==
    Max(1, CeilDiv(2 * interval.num - interval.den, 2 * interval.den))

\* The reference reads the action line and enters boucle
LuaBoucle ==
    /\ pc = "lua_main"
    /\ intervalle' = <<boucle_intervalle(lua_interval(eclipse_timings, action))>>
    /\ pc' = "idle"
    /\ UNCHANGED <<now, eclipse_timings, config_results, mluVars, calcVars, captureVars, time_out,
                   resolveVars, waitVars, schedVars, runVars>>

(***************************************************************************)
(* Specification SpecInterval: the reference and then the scheduler take  *)
(* the same Boucle or Interval line, up to the scheduler's wait for the   *)
(* start time.                                                              *)
(***************************************************************************)
IntervalEndOffsets ==
    {Time(0, 0, 10), Time(0, 1, 0), Time(0, 2, 0), Time(0, 10, 3), Time(0, 10, 7)}

IntervalOrCounts == {1, 2, 3, 4, 10, 20, 30}

InitInterval ==
    /\ pc = "lua_main"
    /\ eclipse_timings = TestTimings
    /\ \E type \in LoopKinds, et \in IntervalEndOffsets, ioc \in IntervalOrCounts :
          action = ActionConfig(type, "C2", "+", Time(0, 0, 0), "+", et, <<ioc>>, 0)
    /\ now = (EntryBase(eclipse_timings, action) - 15) % DaySeconds
    /\ config_results = AllConfigured
    /\ CaptureIdle
    /\ MirrorLockupIdle
    /\ LuaIdle
    /\ CalcIdle
    /\ actions_executed = 0 /\ photos_taken = 0 /\ execution_errors = 0
    /\ stats_before = [actions_executed |-> 0, photos_taken |-> 0, execution_errors |-> 0]
    /\ mode = "none"
    /\ ret = "None"
    /\ start_time = NoTime /\ end_time = NoTime
    /\ total_duration = 0 /\ photo_count = 0
    /\ loop_start_time = 0 /\ next_capture_time = 0 /\ capture_count = 0 /\ i = 0
    /\ fanout_count = 0 /\ last_fanout = NoFanout /\ device_successes = 0
    /\ calls_made = {}
    /\ ControllerIdle
    /\ target_time = NoTime /\ wait_called_at = 0 /\ wait_branch = NoPoll
    /\ reference = "C1" /\ operator = "+" /\ offset_time = Time(0, 0, 0)
    /\ result_time = NoTime

NextInterval == LuaBoucle \/ ExecuteAction

SpecInterval == InitInterval /\ [][NextInterval]_vars

(***************************************************************************)
(* C26: the interval between two captures that the scheduler uses is the  *)
(* reference's: for an Interval with count n it is                         *)
(* max(1, ceil((end - start) / n - 0.5)) seconds, and for a Boucle with   *)
(* interval v it is max(1, ceil(v - 0.5)) seconds.                         *)
(***************************************************************************)
C26_SameInterval ==
    /\ (pc = "wait" /\ mode = "interval") =>
          total_duration = intervalle[1] * (photo_count - 1)
    /\ (pc = "wait" /\ mode = "loop") =>
          action.interval_or_count[1] = intervalle[1]

(***************************************************************************)
(* The conversions of the TimeCalculator, called on their own: a time is  *)
(* converted to seconds and back, a number of seconds to a time and back, *)
(* and the difference of two times is taken.                               *)
(***************************************************************************)
TimeToSeconds ==
    /\ pc = "time_to_seconds"
    /\ ret_seconds' = <<time_to_seconds(arg_time1)>>
    /\ pc' = "back_to_time"
    /\ UNCHANGED <<now, eclipse_timings, config_results, mluVars, captureVars, luaVars, arg_seconds,
                   arg_time1, arg_time2, ret_time, resolveVars, waitVars, schedVars, runVars>>

SecondsBackToTime ==
    /\ pc = "back_to_time"
    /\ ret_time' = seconds_to_time(ret_seconds[1])
    /\ pc' = "calc_done"
    /\ UNCHANGED <<now, eclipse_timings, config_results, mluVars, captureVars, luaVars, arg_seconds,
                   arg_time1, arg_time2, ret_seconds, resolveVars, waitVars, schedVars,
                   runVars>>

SecondsToTime ==
    /\ pc = "seconds_to_time"
    /\ ret_time' = seconds_to_time(arg_seconds[1])
    /\ pc' = "back_to_seconds"
    /\ UNCHANGED <<now, eclipse_timings, config_results, mluVars, captureVars, luaVars, arg_seconds,
                   arg_time1, arg_time2, ret_seconds, resolveVars, waitVars, schedVars,
                   runVars>>

TimeBackToSeconds ==
    /\ pc = "back_to_seconds"
    /\ ret_seconds' = <<time_to_seconds(ret_time)>>
    /\ pc' = "calc_done"
    /\ UNCHANGED <<now, eclipse_timings, config_results, mluVars, captureVars, luaVars, arg_seconds,
                   arg_time1, arg_time2, ret_time, resolveVars, waitVars, schedVars, runVars>>

GetTimeDifference ==
    /\ pc = "get_time_difference"
    /\ ret_seconds' = <<get_time_difference(arg_time1, arg_time2)>>
    /\ pc' = "calc_done"
    /\ UNCHANGED <<now, eclipse_timings, config_results, mluVars, captureVars, luaVars, arg_seconds,
                   arg_time1, arg_time2, ret_time, resolveVars, waitVars, schedVars, runVars>>

(***************************************************************************)
(* Specification SpecCalc: one conversion, on every time of day, on every *)
(* second of the day and on seconds outside the day, or one difference of *)
(* two times.                                                               *)
(***************************************************************************)
\* Every valid time of day
TimesOfDay == { Time(h, m, s) : h \in 0..23, m \in 0..59, s \in 0..59 }

\* Seconds outside [0, 86400): before midnight of the day, and after its end
OutOfDaySeconds ==
    {-172800, -86401, -86400, -86399, -3600, -1, 86400, 86401, 90000, 172799, 172800, 200000}

SecondsInputs == (0..(DaySeconds - 1)) \cup OutOfDaySeconds

\* The times whose differences are taken
DifferenceTimes == { Time(h, m, s) : h \in {0, 11, 12, 23}, m \in {0, 59}, s \in {0, 1, 59} }

InitCalc ==
    /\ \/ /\ pc = "time_to_seconds"
          /\ arg_time1 \in TimesOfDay
          /\ arg_time2 = NoTime
          /\ arg_seconds = NoNumber
       \/ /\ pc = "seconds_to_time"
          /\ arg_seconds \in { <<n>> : n \in SecondsInputs }
          /\ arg_time1 = NoTime
          /\ arg_time2 = NoTime
       \/ /\ pc = "get_time_difference"
          /\ arg_time1 \in DifferenceTimes
          /\ arg_time2 \in DifferenceTimes
          /\ arg_seconds = NoNumber
    /\ ret_seconds = NoNumber
    /\ ret_time = NoTime
    /\ now = 0
    /\ eclipse_timings = TestTimings
    /\ reference = "C1" /\ operator = "+" /\ offset_time = Time(0, 0, 0)
    /\ result_time = NoTime
    /\ target_time = NoTime /\ wait_called_at = 0 /\ wait_branch = NoPoll
    /\ action = NoAction
    /\ mode = "none"
    /\ actions_executed = 0 /\ photos_taken = 0 /\ execution_errors = 0
    /\ ret = "None"
    /\ start_time = NoTime /\ end_time = NoTime
    /\ total_duration = 0 /\ photo_count = 0
    /\ loop_start_time = 0 /\ next_capture_time = 0 /\ capture_count = 0 /\ i = 0
    /\ fanout_count = 0 /\ last_fanout = NoFanout /\ device_successes = 0
    /\ stats_before = [actions_executed |-> 0, photos_taken |-> 0, execution_errors |-> 0]
    /\ calls_made = {}
    /\ config_results = AllConfigured
    /\ CaptureIdle
    /\ MirrorLockupIdle
    /\ LuaIdle
    /\ ControllerIdle

NextCalc ==
    \/ TimeToSeconds
    \/ SecondsBackToTime
    \/ SecondsToTime
    \/ TimeBackToSeconds
    \/ GetTimeDifference

SpecCalc == InitCalc /\ [][NextCalc]_vars

\* What the finished call was: a time taken to seconds and back, seconds taken
\* to a time and back, or a difference
TimeRoundTripDone == pc = "calc_done" /\ arg_seconds = NoNumber /\ arg_time2 = NoTime
SecondsRoundTripDone == pc = "calc_done" /\ arg_seconds # NoNumber
DifferenceDone == pc = "calc_done" /\ arg_time2 # NoTime

(***************************************************************************)
(* C27: seconds_to_time(time_to_seconds(t)) = t for every valid time of   *)
(* day t, and time_to_seconds(seconds_to_time(n)) = n for every n in      *)
(* [0, 86400).                                                              *)
(***************************************************************************)
C27_RoundTrip ==
    /\ TimeRoundTripDone => ret_time = arg_time1
    /\ (SecondsRoundTripDone /\ arg_seconds[1] \in 0..86399) => ret_seconds = arg_seconds

\* 23:59:59 went to 86399 and came back
C27_Witness ==
    /\ TimeRoundTripDone
    /\ arg_time1 = Time(23, 59, 59)
    /\ ret_seconds = <<86399>>
    /\ ret_time = Time(23, 59, 59)

(***************************************************************************)
(* C28: for every integer, also one >= 86400 or negative, seconds_to_time *)
(* returns a valid time of day whose seconds since midnight are the input *)
(* mod 86400 (86400 gives 00:00:00, 90000 gives 01:00:00, -3600 gives     *)
(* 23:00:00).                                                               *)
(***************************************************************************)
C28_WrapsBeforeDecomposing ==
    /\ (pc \in {"back_to_seconds", "calc_done"} /\ arg_seconds # NoNumber) =>
          /\ ValidTime(ret_time)
          /\ ret_time.hour * 3600 + ret_time.minute * 60 + ret_time.second
                 = arg_seconds[1] % 86400
          /\ arg_seconds = <<86400>> => ret_time = Time(0, 0, 0)
          /\ arg_seconds = <<90000>> => ret_time = Time(1, 0, 0)
          /\ arg_seconds = <<-3600>> => ret_time = Time(23, 0, 0)

\* One second before midnight of the day before is 23:59:59
C28_Witness ==
    /\ SecondsRoundTripDone
    /\ arg_seconds = <<-86401>>
    /\ ret_time = Time(23, 59, 59)

(***************************************************************************)
(* C29: get_time_difference(t1, t2) is seconds(t2) - seconds(t1), plus    *)
(* 86400 when that is negative; it equals (seconds(t2) - seconds(t1)) mod *)
(* 86400, lies in [0, 86400), and is 0 exactly when t1 = t2.               *)
(***************************************************************************)
C29_DifferenceIsModular ==
    DifferenceDone =>
        LET naive == (arg_time2.hour * 3600 + arg_time2.minute * 60 + arg_time2.second)
                       - (arg_time1.hour * 3600 + arg_time1.minute * 60 + arg_time1.second)
        IN  /\ ret_seconds = <<IF naive < 0 THEN naive + 86400 ELSE naive>>
            /\ ret_seconds[1] = naive % 86400
            /\ ret_seconds[1] \in 0..86399
            /\ (ret_seconds[1] = 0) <=> (arg_time1 = arg_time2)

\* From 23:59:59 to 00:00:01 of the next day: 2 seconds
C29_Witness ==
    /\ DifferenceDone
    /\ arg_time1 = Time(23, 59, 59) /\ arg_time2 = Time(0, 0, 1)
    /\ ret_seconds = <<2>>

(***************************************************************************)
(* C30: convert_relative_time raises (and returns no time) when the       *)
(* reference is not one of C1, C2, Max, C3, C4 or the operator is neither *)
(* '+' nor '-'; for every valid reference and operator it raises nothing  *)
(* and returns a time of day.                                              *)
(***************************************************************************)
C30_RaisesExactlyOnBadArguments ==
    pc = "resolve_done" =>
        IF reference \in {"C1", "C2", "Max", "C3", "C4"} /\ operator \in {"+", "-"}
        THEN result_time \notin {ValueError, NoTime} /\ ValidTime(result_time)
        ELSE result_time = ValueError

\* A known reference with the operator '*' has raised
C30_Witness ==
    /\ pc = "resolve_done"
    /\ reference = "C2" /\ operator = "*"
    /\ result_time = ValueError

(***************************************************************************)
(* Specification SpecValidate: one call of run() from its first line, on  *)
(* a contact table whose five times are drawn freely.  Initialize is      *)
(* initialize() with a validator whose system, action and camera checks   *)
(* pass; ValidateSequence is the check run() makes before its loop.       *)
(***************************************************************************)
\* validate_eclipse_sequence, lines 246-252: the contacts in the order compared
ContactOrder == <<"C1", "C2", "Max", "C3", "C4">>

AdjacentPairs == 1..(Len(ContactOrder) - 1)

\* config_parser._parse_config, lines 179-183: the parser only logs a warning
parse_config_warns(timings) ==
    \E k \in AdjacentPairs :
        time_to_seconds(timings[ContactOrder[k]])
            >= time_to_seconds(timings[ContactOrder[k + 1]])

validate_eclipse_sequence_allows_equal(timings) ==
    IF \E k \in AdjacentPairs :
          time_to_seconds(timings[ContactOrder[k]])
              > time_to_seconds(timings[ContactOrder[k + 1]])
    THEN FALSE
    ELSE time_to_seconds(timings.C3) - time_to_seconds(timings.C2) > 0

\* TimeCalculator.validate_eclipse_sequence, lines 239-276
validate_eclipse_sequence(timings) ==
    IF \E k \in AdjacentPairs :
          time_to_seconds(timings[ContactOrder[k]])
              >= time_to_seconds(timings[ContactOrder[k + 1]])
    THEN FALSE
    ELSE LET totality_duration == time_to_seconds(timings.C3)
                                      - time_to_seconds(timings.C2)
         IN  IF totality_duration <= 0 THEN FALSE ELSE TRUE

\* SystemValidator._validate_eclipse_timings, lines 319-329
_validate_eclipse_timings(timings) == validate_eclipse_sequence(timings)

\* The value a bool is recorded as
BoolName(b) == IF b THEN "True" ELSE "False"

\* run, lines 160-161, with initialize, lines 95-98: a failed validation of
\* the configuration makes initialize return False and run return 1
Initialize ==
    /\ pc = "initialize"
    /\ sequence_valid' = BoolName(_validate_eclipse_timings(eclipse_timings))
    /\ IF ~_validate_eclipse_timings(eclipse_timings)
       THEN exit_code' = <<1>> /\ pc' = "exited"
       ELSE pc' = "validate" /\ UNCHANGED exit_code
    /\ UNCHANGED <<now, eclipse_timings, config_results, mluVars, calcVars, luaVars, captureVars,
                   resolveVars, waitVars, schedVars, actions, action_index,
                   strict_mode, shutdown_requested, started, action_results, reset_at>>

\* run, lines 175-178
ValidateSequence ==
    /\ pc = "validate"
    /\ sequence_valid' = BoolName(validate_eclipse_sequence(eclipse_timings))
    /\ IF ~validate_eclipse_sequence(eclipse_timings)
       THEN exit_code' = <<1>> /\ pc' = "exited"
       ELSE pc' = "run" /\ UNCHANGED exit_code
    /\ UNCHANGED <<now, eclipse_timings, config_results, mluVars, calcVars, luaVars, captureVars,
                   resolveVars, waitVars, schedVars, actions, action_index,
                   strict_mode, shutdown_requested, started, action_results, reset_at>>

\* Six times of day ten seconds apart, from which each contact is drawn
ContactTimes == { Time(16, 0, 10 * k) : k \in 0..5 }

ContactTables ==
    { [C1 |-> a, C2 |-> b, Max |-> c, C3 |-> d, C4 |-> e] :
          a \in ContactTimes, b \in ContactTimes, c \in ContactTimes,
          d \in ContactTimes, e \in ContactTimes }

\* One photo five seconds before the maximum
ValidateSequences ==
    { << ActionConfig("Photo", "Max", "-", Time(0, 0, 5), "", NoTime, NoNumber, 0) >> }

ValidateEntryTimes == {Time(15, 59, 50)}

InitValidate ==
    /\ pc = "initialize"
    /\ eclipse_timings \in ContactTables
    /\ \E t \in ValidateEntryTimes : now = time_to_seconds(t)
    /\ sequence_valid = "None"
    /\ actions \in ValidateSequences
    /\ action_index = 1
    /\ strict_mode \in BOOLEAN
    /\ shutdown_requested = FALSE
    /\ exit_code = NoNumber
    /\ started = <<>>
    /\ action_results = <<>>
    /\ reset_at = 0
    /\ SchedulerIdle
    /\ target_time = NoTime /\ wait_called_at = 0 /\ wait_branch = NoPoll
    /\ reference = "C1" /\ operator = "+" /\ offset_time = Time(0, 0, 0)
    /\ result_time = NoTime

NextValidate ==
    \/ Initialize
    \/ ValidateSequence
    \/ RunLoop
    \/ ActionReturned
    \/ ExecuteAction
    \/ WaitPoll
    \/ WaitSleep
    \/ PhotoCapture

SpecValidate == InitValidate /\ [][NextValidate]_vars

\* The five contact times, as seconds since midnight, strictly increase
StrictlyIncreasing(timings) ==
    /\ time_to_seconds(timings.C1) < time_to_seconds(timings.C2)
    /\ time_to_seconds(timings.C2) < time_to_seconds(timings.Max)
    /\ time_to_seconds(timings.Max) < time_to_seconds(timings.C3)
    /\ time_to_seconds(timings.C3) < time_to_seconds(timings.C4)

(***************************************************************************)
(* C31: validate_eclipse_sequence returns True if and only if the five    *)
(* contact times are strictly increasing in the order C1 < C2 < Max < C3  *)
(* < C4 as seconds since midnight; an equal or out-of-order adjacent pair *)
(* makes it return False.                                                  *)
(***************************************************************************)
C31_ValidIffStrictlyIncreasing ==
    sequence_valid # "None" =>
        ((sequence_valid = "True") <=> StrictlyIncreasing(eclipse_timings))

\* validate_eclipse_sequence has returned False on a table whose only flaw is
\* one equal pair (C1 = C2)
C31_Witness ==
    /\ sequence_valid = "False"
    /\ eclipse_timings.C1 = eclipse_timings.C2
    /\ time_to_seconds(eclipse_timings.C2) < time_to_seconds(eclipse_timings.Max)
    /\ time_to_seconds(eclipse_timings.Max) < time_to_seconds(eclipse_timings.C3)
    /\ time_to_seconds(eclipse_timings.C3) < time_to_seconds(eclipse_timings.C4)

TotalityDuration(timings) ==
    time_to_seconds(timings.C3) - time_to_seconds(timings.C2)

(***************************************************************************)
(* C32: a contact table that violates the strictly-increasing order is    *)
(* only reported and is not fatal: once run() has returned, the actions   *)
(* of the sequence have been passed to execute_action; only a totality    *)
(* duration C3 - C2 <= 0 stops the run, with exit code 1 and no action.   *)
(***************************************************************************)
C32_OrderViolationNotFatal ==
    (pc = "exited" /\ ~StrictlyIncreasing(eclipse_timings)) =>
        IF TotalityDuration(eclipse_timings) <= 0
        THEN exit_code = <<1>> /\ started = <<>>
        ELSE parse_config_warns(eclipse_timings) /\ Len(started) = Len(actions)

(***************************************************************************)
(* Specification SpecMirror: one call of execute_action on an action with *)
(* or without a mirror lockup delay, on cameras of which at most one      *)
(* raises in its mirror_lockup call.                                      *)
(***************************************************************************)
MirrorLockupDelays == {-100, 0, 500, 2500}

MirrorActions ==
    UNION { { ActionConfig("Photo", "Max", "-", Time(0, 0, 10), "", NoTime, NoNumber, mlu),
              ActionConfig("Boucle", "C2", "+", Time(0, 0, 0), "+", Time(0, 0, 10), <<3>>, mlu),
              ActionConfig("Interval", "C2", "+", Time(0, 0, 0), "+", Time(0, 0, 10), <<4>>,
                           mlu) } : mlu \in MirrorLockupDelays }

InitMirror ==
    /\ pc = "idle"
    /\ eclipse_timings = TestTimings
    /\ config_results = AllConfigured
    /\ mlu_raises \in Cameras \cup {NoCamera}
    /\ mlu_invoked = {}
    /\ CaptureIdle
    /\ LuaIdle
    /\ CalcIdle
    /\ action \in MirrorActions
    /\ \E delta \in ConfigureEntryDeltas :
          now = (EntryBase(eclipse_timings, action) + delta) % DaySeconds
    /\ actions_executed = 0 /\ photos_taken = 0 /\ execution_errors = 0
    /\ stats_before = [actions_executed |-> 0, photos_taken |-> 0, execution_errors |-> 0]
    /\ mode = "none"
    /\ ret = "None"
    /\ start_time = NoTime /\ end_time = NoTime
    /\ total_duration = 0 /\ photo_count = 0
    /\ loop_start_time = 0 /\ next_capture_time = 0 /\ capture_count = 0 /\ i = 0
    /\ fanout_count = 0 /\ last_fanout = NoFanout /\ device_successes = 0
    /\ calls_made = {}
    /\ ControllerIdle
    /\ target_time = NoTime /\ wait_called_at = 0 /\ wait_branch = NoPoll
    /\ reference = "C1" /\ operator = "+" /\ offset_time = Time(0, 0, 0)
    /\ result_time = NoTime

SpecMirror == InitMirror /\ [][Next]_vars

\* The action has returned without having been cut short: a Photo made its
\* capture, a Boucle left its loop at the end time and succeeds exactly when
\* it made a capture, an Interval made all its captures
RanToItsEnd ==
    /\ mode = "photo" => fanout_count = 1
    /\ mode = "loop" =>
          (fanout_count = capture_count /\ ((ret = "True") <=> (fanout_count > 0)))
    /\ mode = "interval" => (fanout_count = photo_count /\ ret = "True")

LoopActions ==
    { \* 16:02:49 to 16:02:59 every 3 s
      ActionConfig("Boucle", "C2", "+", Time(0, 0, 0), "+", Time(0, 0, 10), <<3>>, 0),
      \* 23:59:50 to 23:59:58 every 3 s
      ActionConfig("Boucle", "C4", "+", Time(6, 28, 47), "+", Time(6, 28, 55), <<3>>, 0),
      \* 23:59:50 to 00:00:05 every 3 s
      ActionConfig("Boucle", "C4", "+", Time(6, 28, 47), "+", Time(6, 29, 2), <<3>>, 0),
      \* 23:59:00 to 00:01:00 every 30 s
      ActionConfig("Boucle", "C4", "+", Time(6, 27, 57), "+", Time(6, 29, 57), <<30>>, 0) }

InitLoop ==
    /\ pc = "idle"
    /\ eclipse_timings = TestTimings
    /\ config_results = AllConfigured
    /\ CaptureIdle
    /\ MirrorLockupIdle
    /\ LuaIdle
    /\ CalcIdle
    /\ action \in LoopActions
    /\ \E delta \in ConfigureEntryDeltas :
          now = (EntryBase(eclipse_timings, action) + delta) % DaySeconds
    /\ actions_executed = 0 /\ photos_taken = 0 /\ execution_errors = 0
    /\ stats_before = [actions_executed |-> 0, photos_taken |-> 0, execution_errors |-> 0]
    /\ mode = "none"
    /\ ret = "None"
    /\ start_time = NoTime /\ end_time = NoTime
    /\ total_duration = 0 /\ photo_count = 0
    /\ loop_start_time = 0 /\ next_capture_time = 0 /\ capture_count = 0 /\ i = 0
    /\ fanout_count = 0 /\ last_fanout = NoFanout /\ device_successes = 0
    /\ calls_made = {}
    /\ ControllerIdle
    /\ target_time = NoTime /\ wait_called_at = 0 /\ wait_branch = NoPoll
    /\ reference = "C1" /\ operator = "+" /\ offset_time = Time(0, 0, 0)
    /\ result_time = NoTime

NextLoop ==
    \/ ExecuteAction
    \/ WaitPoll
    \/ WaitSleep
    \/ LoopStart
    \/ LoopBreak
    \/ LoopCapture
    \/ LoopIdle

SpecLoop == InitLoop /\ [][NextLoop]_vars

\* The resolved window starts later in the day than it ends
CrossesMidnight == time_to_seconds(start_time) > time_to_seconds(end_time)

\* The clock at which the resolved end time is reached, for a loop begun on time
EndInstant == StartInstant + get_time_difference(start_time, end_time)

(***************************************************************************)
(* C34: a Boucle whose resolved window crosses midnight and whose loop    *)
(* begins at its start time captures until the end time is reached, like  *)
(* a window inside one day: when it returns it has made at least one      *)
(* capture, it returns True, and the clock is not before the end time.    *)
(***************************************************************************)
C34_LoopAcrossMidnight ==
    (pc = "done" /\ mode = "loop" /\ CrossesMidnight /\ StartedOnTime) =>
        /\ fanout_count >= 1
        /\ ret = "True"
        /\ now >= EndInstant

(***************************************************************************)
(* C35: once the clock has reached the resolved end time of a Boucle      *)
(* begun on time, the loop starts no further capture, however long the    *)
(* captures before took.                                                   *)
(***************************************************************************)
C35_NoCaptureAfterEnd ==
    [][(pc = "loop" /\ StartedOnTime /\ now >= EndInstant) => ~FanoutStep]_vars

(***************************************************************************)
(* Specification SpecWaitLive: one call of wait_until(target_time) with   *)
(* its default check_interval of 0.25 s, on a clock that advances and a   *)
(* loop that is always scheduled again: between two polls that read a     *)
(* different second the clock has moved on by one second.                 *)
(***************************************************************************)
\* The whole seconds between two such polls
CheckIntervalStep == 1

\* wait_until, line 189: time.sleep(check_interval)
WaitSleepCheckInterval ==
    /\ pc = "wait_sleep"
    /\ now + CheckIntervalStep <= MaxClock
    /\ now' = now + CheckIntervalStep
    /\ pc' = "wait"
    /\ UNCHANGED <<eclipse_timings, config_results, mluVars, calcVars, luaVars, captureVars,
                   resolveVars, waitVars, schedVars, runVars>>

LiveTargets == {Time(0, 0, 10), Time(23, 59, 59)}

\* Time of day at entry, relative to the target
LiveDeltas == {-20, -1, 0, 43199, 43200}

InitWaitLive ==
    /\ pc = "wait"
    /\ target_time \in LiveTargets
    /\ \E delta \in LiveDeltas : now = (time_to_seconds(target_time) + delta) % DaySeconds
    /\ wait_called_at = now
    /\ wait_branch = NoPoll
    /\ eclipse_timings = TestTimings
    /\ reference = "C1" /\ operator = "+" /\ offset_time = Time(0, 0, 0)
    /\ result_time = NoTime
    /\ SchedulerIdle
    /\ ControllerIdle

NextWaitLive == WaitPoll \/ WaitSleepCheckInterval

SpecWaitLive == InitWaitLive /\ [][NextWaitLive]_vars /\ WF_vars(NextWaitLive)

(***************************************************************************)
(* C36: wait_until eventually returns, for every target and every time at *)
(* which it is called, when the clock keeps advancing and the poll loop   *)
(* keeps being scheduled; and it returns only at a poll where the         *)
(* same-day difference now - target lies in [0, 43200) seconds.           *)
(***************************************************************************)
C36_WaitEventuallyReturns ==
    /\ <>(pc = "wait_done")
    /\ [](pc = "wait_done" => (0 <= SameDayPassedBy /\ SameDayPassedBy < HalfDaySeconds))

\* wait_until returned after it had taken the target to be tomorrow's and
\* slept for more than half a day
C36_Witness ==
    /\ pc = "wait_done"
    /\ now - wait_called_at > HalfDaySeconds
    /\ wait_branch.branch = "reached"

(***************************************************************************)
(* Specification SpecStats: a caller that passes a sequence of actions to *)
(* execute_action one after the other as run() does, may call             *)
(* reset_stats between two calls and after the last, and reads the       *)
(* counters through get_execution_stats at the end; a shutdown may be     *)
(* requested at any time.  The configure fan-out may raise.               *)
(***************************************************************************)
reset_stats_keeps_errors(stats) ==
    [actions_executed |-> 0, photos_taken |-> 0,
     execution_errors |-> stats.execution_errors]

\* ActionScheduler.reset_stats, lines 396-400
reset_stats(stats) ==
    [actions_executed |-> 0, photos_taken |-> 0, execution_errors |-> 0]

ResetStats ==
    /\ pc \in {"run", "exited"}
    /\ actions_executed' = reset_stats(Stats).actions_executed
    /\ photos_taken' = reset_stats(Stats).photos_taken
    /\ execution_errors' = reset_stats(Stats).execution_errors
    /\ reset_at' = Len(action_results)
    /\ UNCHANGED <<pc, now, eclipse_timings, config_results, mluVars, calcVars, luaVars,
                   captureVars, resolveVars, waitVars, action, mode, ret, localVars,
                   histVars, sequence_valid, actions, action_index, strict_mode,
                   shutdown_requested, exit_code, started, action_results>>

StatsSequences ==
    { \* a photo, a loop whose end time does not resolve, and a photo
      << ActionConfig("Photo", "Max", "-", Time(0, 0, 10), "", NoTime, NoNumber, 0),
         ActionConfig("Boucle", "-", "", Time(16, 4, 0), "+", Time(16, 5, 0), <<10>>, 0),
         ActionConfig("Photo", "Max", "+", Time(0, 0, 5), "", NoTime, NoNumber, 0) >>,
      \* two photos over 10 s, and a loop
      << ActionConfig("Interval", "C2", "+", Time(0, 0, 0), "+", Time(0, 0, 10), <<2>>, 0),
         ActionConfig("Boucle", "Max", "-", Time(0, 0, 10), "-", Time(0, 0, 4), <<3>>, 0) >> }

\* configure_all: every device accepts the settings, or the fan-out raises
StatsConfigResults == {AllConfigured, ConfigureOutcome(TRUE, <<>>)}

InitStats ==
    /\ pc = "run"
    /\ eclipse_timings = TestTimings
    /\ \E t \in RunEntryTimes : now = time_to_seconds(t)
    /\ sequence_valid = "True"
    /\ actions \in StatsSequences
    /\ action_index = 1
    /\ strict_mode = FALSE
    /\ shutdown_requested = FALSE
    /\ exit_code = NoNumber
    /\ started = <<>>
    /\ action_results = <<>>
    /\ reset_at = 0
    /\ action = NoAction
    /\ mode = "none"
    /\ actions_executed = 0 /\ photos_taken = 0 /\ execution_errors = 0
    /\ ret = "None"
    /\ start_time = NoTime /\ end_time = NoTime
    /\ total_duration = 0 /\ photo_count = 0
    /\ loop_start_time = 0 /\ next_capture_time = 0 /\ capture_count = 0 /\ i = 0
    /\ fanout_count = 0 /\ last_fanout = NoFanout /\ device_successes = 0
    /\ stats_before = [actions_executed |-> 0, photos_taken |-> 0, execution_errors |-> 0]
    /\ calls_made = {}
    /\ config_results \in StatsConfigResults
    /\ CaptureIdle
    /\ MirrorLockupIdle
    /\ LuaIdle
    /\ CalcIdle
    /\ target_time = NoTime /\ wait_called_at = 0 /\ wait_branch = NoPoll
    /\ reference = "C1" /\ operator = "+" /\ offset_time = Time(0, 0, 0)
    /\ result_time = NoTime

NextStats ==
    \/ RunLoop
    \/ ActionReturned
    \/ SignalHandler
    \/ ResetStats
    \/ Next

SpecStats == InitStats /\ [][NextStats]_vars

\* The calls of execute_action that have returned since reset_stats was last called
CallsSinceReset == Len(action_results) - reset_at

(***************************************************************************)
(* C37: every call of execute_action returns True or False and has then  *)
(* incremented exactly one counter by exactly 1: actions_executed when it *)
(* returns True, execution_errors when it returns False, also when time   *)
(* resolution or a device call raised; so between calls actions_executed  *)
(* + execution_errors is the number of calls since the last reset.        *)
(***************************************************************************)
C37_OneCounterPerCall ==
    /\ pc = "done" =>
          /\ ret \in {"True", "False"}
          /\ ret = "True" =>
                /\ actions_executed = stats_before.actions_executed + 1
                /\ execution_errors = stats_before.execution_errors
          /\ ret = "False" =>
                /\ actions_executed = stats_before.actions_executed
                /\ execution_errors = stats_before.execution_errors + 1
    /\ pc \in {"run", "exited"} =>
          actions_executed + execution_errors = CallsSinceReset

\* Three calls have returned since a reset, one of them False because the
\* loop's end time raised
C37_Witness ==
    /\ pc = "exited"
    /\ action_results = <<"True", "False", "True">>
    /\ reset_at = 0
    /\ actions_executed = 2 /\ execution_errors = 1

\* A step of reset_stats
ResetStep == reset_at' = Len(action_results) /\ pc \in {"run", "exited"} /\ pc' = pc

(***************************************************************************)
(* C38: the three counters are never negative and no step decreases one   *)
(* of them, except a step of reset_stats, which sets all three to 0; the  *)
(* photos counted so far are kept when an action fails, raises or is      *)
(* followed by a shutdown, and reading the counters through               *)
(* get_execution_stats at the end of the run changes none of them.        *)
(***************************************************************************)
C38_CountersOnlyGrow ==
    [][/\ actions_executed' >= 0 /\ photos_taken' >= 0 /\ execution_errors' >= 0
       /\ IF ResetStep
          THEN actions_executed' = 0 /\ photos_taken' = 0 /\ execution_errors' = 0
          ELSE /\ actions_executed' >= actions_executed
               /\ photos_taken' >= photos_taken
               /\ execution_errors' >= execution_errors
       /\ (pc' = "done" /\ ret' = "False") => photos_taken' >= photos_taken
       /\ (pc = "run" /\ pc' = "exited") =>
             /\ actions_executed' = actions_executed
             /\ photos_taken' = photos_taken
             /\ execution_errors' = execution_errors]_vars

\* reset_stats has set the counters of a finished run to 0: two calls had
\* succeeded and one had failed after photos had been counted
C38_Witness ==
    /\ pc = "exited"
    /\ action_results = <<"True", "False", "True">>
    /\ reset_at = 3
    /\ actions_executed = 0 /\ photos_taken = 0 /\ execution_errors = 0

\* wait_until has been entered by the action's method (lines 117, 170, 256)
WaitEntered == "wait" \in calls_made

\* wait_until has returned to the action's method
WaitReturned ==
    /\ WaitEntered
    /\ pc \notin {"idle", "wait", "wait_sleep"}
    /\ wait_branch.branch \in {"reached", "passed", "reached_late"}

====
